---- MODULE Spec2Model ----
(***************************************************************************)
(* Turn pipeline of the Gyaanchand voice assistant: the recognizer session *)
(* of backend/server-enhanced.js (openDeepgramSocket and the client        *)
(* message handler), routeRequest with its response cache                  *)
(* (backend/intelligentRouter.js) and murfStreamSentences with its chunker *)
(* (backend/ttsStreamSentences.js).                                        *)
(*                                                                         *)
(* Node.js runs every handler to completion: a step of the model is the    *)
(* code between two real suspension points (a network call, a timer).  An  *)
(* await of a value that is already settled only defers to the microtask   *)
(* queue, which is drained before the next event is dispatched, so it is   *)
(* not a point where another handler can run.                              *)
(***************************************************************************)
EXTENDS Integers, Sequences, FiniteSets, TLC

(* ------------------------------ bounds -------------------------------- *)
\* Turns (debounce timer callbacks that pass the guard) per recognizer session.
MaxTurns == 2
\* Largest value of the clock.
MaxTime == 600000
\* Granularity of the clock.
TickStep == 300000
\* start_live messages on a connection after its first.
MaxRestarts == 2
\* Calls of updateMemory in a session that only records turns.
MaxUpdates == 6
\* Audio frames the client receives.
MaxFrames == 4

(* ------------------------- program constants -------------------------- *)
CACHE_TTL == 300000
MAX_CACHE_SIZE == 100
CHUNK_LIMIT == 150
MEMORY_WINDOW == 4
BARGE_IN_MIN == 2

(***************************************************************************)
(* Text.  A reply is kept as its structure: an optional leading            *)
(* "Gyaanchand:" prefix, optional markdown markers, and a body of          *)
(* sentences; a sentence is a sequence of parts separated by secondary     *)
(* separators (", " "; " " and " " but "), a part being its length and the *)
(* length of the separator that follows it.                                *)
(***************************************************************************)
Part(len, sep) == [len |-> len, sep |-> sep]

Txt(prefix, markup, body) == [prefix |-> prefix, markup |-> markup, body |-> body]

EmptyText == Txt(FALSE, FALSE, <<>>)

\* JS truthiness of a string: the empty string is falsy.
Truthy(text) == text # EmptyText

RECURSIVE SumLen(_)
SumLen(parts) ==
  IF parts = <<>> THEN 0
  ELSE Head(parts).len + Head(parts).sep + SumLen(Tail(parts))

\* s.length of one sentence
SentenceLen(s) == SumLen(s)

\* response.replace(/^Gyaanchand:\s*/i, "").trim()
CleanResponse(raw) == [raw EXCEPT !.prefix = FALSE]

\* sanitizeForTTS: drops the markdown markers and a leading self-identification
sanitizeForTTS(text) == Txt(FALSE, FALSE, text.body)

(***************************************************************************)
(* splitIntoChunks.  A chunk is the sequence of the pieces joined into it  *)
(* with single spaces, a piece being a whole sentence (p = 0) or one part  *)
(* of a sentence, and its length.                                          *)
(***************************************************************************)
NoChunk == [items |-> <<>>, len |-> 0]

Piece(s, p, len) == [s |-> s, p |-> p, len |-> len]

\* current ? current + " " + x : x
Join(current, piece) ==
  IF current.items = <<>>
  THEN [items |-> <<piece>>, len |-> piece.len]
  ELSE [items |-> Append(current.items, piece), len |-> current.len + 1 + piece.len]

Push(chunks, current) == IF current.items = <<>> THEN chunks ELSE Append(chunks, current)

\* variant of the loop over the parts without the length test of line 57
RECURSIVE SplitPartsNoLimit(_, _, _, _)
SplitPartsNoLimit(acc, si, parts, pi) ==
  IF pi > Len(parts) THEN acc
  ELSE SplitPartsNoLimit([chunks |-> acc.chunks,
                          current |-> Join(acc.current, Piece(si, pi, parts[pi].len))],
                         si, parts, pi + 1)

\* the loop over the parts of a long sentence; acc = [chunks, current]
RECURSIVE SplitParts(_, _, _, _)
SplitParts(acc, si, parts, pi) ==
  IF pi > Len(parts) THEN acc
  ELSE
    LET p == Piece(si, pi, parts[pi].len)
        joined == Join(acc.current, p)
    IN IF joined.len <= CHUNK_LIMIT
       THEN SplitParts([chunks |-> acc.chunks, current |-> joined], si, parts, pi + 1)
       ELSE SplitParts([chunks |-> Push(acc.chunks, acc.current),
                        current |-> Join(NoChunk, p)], si, parts, pi + 1)

\* the loop over the sentences
RECURSIVE SplitSentences(_, _, _)
SplitSentences(acc, sentences, si) ==
  IF si > Len(sentences) THEN acc
  ELSE
    LET s == Piece(si, 0, SentenceLen(sentences[si]))
        candidate == Join(acc.current, s)
    IN IF candidate.len <= CHUNK_LIMIT
       THEN SplitSentences([chunks |-> acc.chunks, current |-> candidate], sentences, si + 1)
       ELSE LET pushed == Push(acc.chunks, acc.current)
            IN IF s.len <= CHUNK_LIMIT
               THEN SplitSentences([chunks |-> pushed, current |-> Join(NoChunk, s)],
                                   sentences, si + 1)
               ELSE SplitSentences(
                      SplitParts([chunks |-> pushed, current |-> acc.current],
                                 si, sentences[si], 1),
                      sentences, si + 1)

splitIntoChunks(text) ==
  LET t == sanitizeForTTS(text)
      r == SplitSentences([chunks |-> <<>>, current |-> NoChunk], t.body, 1)
  IN Push(r.chunks, r.current)


(***************************************************************************)
(* Utterances.  A transcript is kept as its text together with what the    *)
(* code reads from it: its length, its normalized form, the characters and *)
(* keywords the regular expressions look for, and how handleAction         *)
(* (actionHandler.js) treats it: "none" (returns null), "sync" (returns a  *)
(* message without any network call) or "io" (awaits Gmail/Calendar).      *)
(***************************************************************************)
Utt(text, len, norm) ==
  [text |-> text, len |-> len, norm |-> norm, q |-> FALSE, dot |-> FALSE,
   name |-> "", act |-> "none", kwEmail |-> FALSE, kwCalendar |-> FALSE,
   kwDocument |-> FALSE, kwGreeting |-> FALSE, kwDeep |-> FALSE,
   kwComplex |-> FALSE, kwFile |-> FALSE]

U_hello == [Utt("hello", 5, "hello") EXCEPT !.kwGreeting = TRUE]
U_uh == Utt("uh", 2, "uh")
U_time == [Utt("what time is it?", 16, "what time is it") EXCEPT !.q = TRUE]
U_time2 == Utt("What time is it", 15, "what time is it")
U_why == [Utt("why is the sky blue?", 20, "why is the sky blue")
            EXCEPT !.q = TRUE, !.kwDeep = TRUE]
U_pdf == [Utt("what does the pdf say?", 22, "what does the pdf say")
            EXCEPT !.q = TRUE, !.kwDocument = TRUE, !.kwFile = TRUE]
U_mail == [Utt("send email to bob@x.com saying hi", 33, "send email to bobxcom saying hi")
            EXCEPT !.dot = TRUE, !.act = "io", !.kwEmail = TRUE]
U_mailq == [Utt("send an email", 13, "send an email")
            EXCEPT !.act = "sync", !.kwEmail = TRUE]
U_what == Utt("what time", 9, "what time")
U_file == [Utt("open the file", 13, "open the file") EXCEPT !.kwFile = TRUE]
U_yes == [Utt("yes.", 4, "yes") EXCEPT !.dot = TRUE]
U_name == [Utt("my name is Bob", 14, "my name is bob")
            EXCEPT !.name = "Bob", !.kwGreeting = TRUE]

(* ------------------------------ replies ------------------------------- *)
\* "I'm having trouble processing that right now. Could you try asking again?"
Apology == Txt(FALSE, FALSE, << <<Part(45, 0)>>, <<Part(27, 0)>> >>)

\* "I'd be happy to send an email. Could you provide the recipient's email address?"
MsgNeedRecipient == Txt(FALSE, FALSE, << <<Part(30, 0)>>, <<Part(48, 0)>> >>)

\* `Email sent successfully to bob@x.com with subject "Message from Gyaanchand".`
MsgEmailSent == Txt(FALSE, FALSE, << <<Part(76, 0)>> >>)

\* the message handleAction returns for an utterance
ActionMessage(u) == IF u.act = "sync" THEN MsgNeedRecipient ELSE MsgEmailSent

\* answers a reasoning backend may give: one short sentence, the same with the
\* echoed self-identification, two sentences that do not fit one chunk, and a
\* bare "Gyaanchand:" (nothing is left of it after cleaning)
AnsShort == Txt(FALSE, FALSE, << <<Part(40, 0)>> >>)
AnsPrefixed == Txt(TRUE, FALSE, << <<Part(40, 0)>> >>)
AnsLong == Txt(FALSE, TRUE, << <<Part(100, 0)>>, <<Part(90, 0)>> >>)
AnsBare == Txt(TRUE, FALSE, <<>>)

\* texts for the chunker: one sentence of 182 characters with a comma after the
\* first 100; a sentence of 60 characters followed by one of 172 with a comma after
\* its first 80; one sentence of 200 characters without any separator; three
\* sentences of 70 characters
TxtComma == Txt(FALSE, FALSE, << <<Part(100, 2), Part(80, 0)>> >>)
TxtShortThenLong == Txt(FALSE, FALSE, << <<Part(60, 0)>>, <<Part(80, 2), Part(90, 0)>> >>)
TxtAtomic == Txt(FALSE, FALSE, << <<Part(200, 0)>> >>)
TxtThree == Txt(FALSE, TRUE, << <<Part(70, 0)>>, <<Part(70, 0)>>, <<Part(70, 0)>> >>)

(***************************************************************************)
(* classifyIntent                                                          *)
(***************************************************************************)
Intent(type, complexity) == [type |-> type, complexity |-> complexity]

classifyIntent(u) ==
  IF u.kwEmail THEN Intent("email", "complex")
  ELSE IF u.kwCalendar THEN Intent("calendar", "complex")
  ELSE IF u.kwDocument THEN Intent("document", "complex")
  ELSE IF u.kwGreeting THEN Intent("greeting", "simple")
  ELSE IF u.len < 50 /\ ~u.kwDeep THEN Intent("general", "simple")
  ELSE IF u.len > 100 \/ u.kwComplex THEN Intent("general", "complex")
  ELSE Intent("general", "medium")

\* variant of the selection that sends a query of medium complexity to the fast tier
PrimaryBackendMediumFast(u, hasDocument) ==
  LET intent == classifyIntent(u)
  IN IF hasDocument /\ (intent.type = "document" \/ u.kwFile) THEN "pro"
     ELSE IF intent.complexity \in {"simple", "medium"} THEN "flash"
     ELSE "pro"

\* the backend routeRequest tries first
PrimaryBackend(u, hasDocument) ==
  LET intent == classifyIntent(u)
  IN IF hasDocument /\ (intent.type = "document" \/ u.kwFile) THEN "pro"
     ELSE IF intent.type = "greeting" THEN "flash"
     ELSE IF intent.complexity = "simple" THEN "flash"
     ELSE IF intent.complexity = "medium" THEN "pro"
     ELSE "pro"

(***************************************************************************)
(* The response cache: a Map, kept as the sequence of its entries in       *)
(* insertion order.  The md5 of the key material is kept as the material.  *)
(***************************************************************************)
getCacheKey(u, memoryContext, hasDocument) == [norm |-> u.norm, doc |-> hasDocument]

CacheIndex(cache, key) ==
  IF \E i \in 1..Len(cache) : cache[i].key = key
  THEN CHOOSE i \in 1..Len(cache) : cache[i].key = key
  ELSE 0

\* Map.delete
CacheDelete(cache, key) ==
  LET i == CacheIndex(cache, key)
  IN IF i = 0 THEN cache ELSE SubSeq(cache, 1, i - 1) \o SubSeq(cache, i + 1, Len(cache))

\* Map.set: an existing key keeps its place
CacheSet(cache, key, entry) ==
  LET i == CacheIndex(cache, key)
      e == [key |-> key, response |-> entry.response, timestamp |-> entry.timestamp]
  IN IF i = 0 THEN Append(cache, e) ELSE [cache EXCEPT ![i] = e]

\* variant of getCachedResponse that still returns an entry whose age is CACHE_TTL
getCachedResponseInclusive(cache, key, time) ==
  LET i == CacheIndex(cache, key)
  IN IF i # 0 /\ time - cache[i].timestamp <= CACHE_TTL
     THEN [response |-> cache[i].response, cache |-> cache]
     ELSE [response |-> EmptyText, cache |-> CacheDelete(cache, key)]

\* getCachedResponse: the value returned (EmptyText standing for null as well: both
\* are falsy to the caller) and the cache after the lazy purge
getCachedResponse(cache, key, time) ==
  LET i == CacheIndex(cache, key)
  IN IF i # 0 /\ time - cache[i].timestamp < CACHE_TTL
     THEN [response |-> cache[i].response, cache |-> cache]
     ELSE [response |-> EmptyText, cache |-> CacheDelete(cache, key)]

setCachedResponse(cache, key, response, time) ==
  LET c1 == IF Len(cache) >= MAX_CACHE_SIZE THEN CacheDelete(cache, key) ELSE cache
  IN CacheSet(c1, key, [response |-> response, timestamp |-> time])

\* the body of the cleanup interval
CacheCleanup(cache, time) ==
  SelectSeq(cache, LAMBDA e : ~(time - e.timestamp > CACHE_TTL))

(***************************************************************************)
(* Session memory and updateMemory                                         *)
(***************************************************************************)
EmptyMemory == [userName |-> "", lastUserMessages |-> <<>>, lastBotMessages |-> <<>>]

\* push, then pop when longer than the window
PushWindowPop(list, x) ==
  LET l == Append(list, x)
  IN IF Len(l) > MEMORY_WINDOW THEN SubSeq(l, 1, MEMORY_WINDOW) ELSE l

\* push, then shift when longer than the window
PushWindow(list, x) ==
  LET l == Append(list, x)
  IN IF Len(l) > MEMORY_WINDOW THEN Tail(l) ELSE l

\* an entry of a window carries, beside the message, the turn that pushed it
updateMemory(mem, userMsg, botMsg, tag) ==
  [mem EXCEPT
     !.lastUserMessages =
        IF userMsg.text # "" THEN PushWindow(@, [msg |-> userMsg.text, turn |-> tag]) ELSE @,
     !.lastBotMessages =
        IF Truthy(botMsg) THEN PushWindow(@, [msg |-> botMsg, turn |-> tag]) ELSE @]

Msgs(list) == [i \in 1..Len(list) |-> list[i].msg]

\* memoryContext built by the timer callback: the user name and the last two
\* user messages
MemoryContext(mem) ==
  [userName |-> mem.userName,
   recent |-> SubSeq(Msgs(mem.lastUserMessages),
                     IF Len(mem.lastUserMessages) > 2 THEN Len(mem.lastUserMessages) - 1 ELSE 1,
                     Len(mem.lastUserMessages))]


(***************************************************************************)
(* routeRequest.  One call is a record: where it is suspended (pc), its    *)
(* arguments, and what it did: the backends it invoked in order, whether   *)
(* it was answered from the cache, whether it wrote the cache, and its     *)
(* outcome ("returned" with a result, or "threw" the AbortError); also    *)
(* how its backend calls settled (outcomes) and which calls had returned   *)
(* when it was made (after).                                               *)
(* An outcome of a backend call is "ok" with the backend's text, "error"   *)
(* (any failure that is not a cancellation) or "abort" (an error named     *)
(* AbortError).                                                            *)
(***************************************************************************)
NoCall ==
  [pc |-> "idle", u |-> U_uh, mem |-> MemoryContext(EmptyMemory), hasDoc |-> FALSE,
   token |-> 0, key |-> getCacheKey(U_uh, "", FALSE), invoked |-> <<>>, hit |-> FALSE,
   stored |-> FALSE, apology |-> FALSE, result |-> EmptyText, at |-> 0, ended |-> 0,
   outcomes |-> <<>>, after |-> {}]

Ok(raw) == [kind |-> "ok", raw |-> raw]
Failed == [kind |-> "error", raw |-> EmptyText]
Aborted == [kind |-> "abort", raw |-> EmptyText]

\* return cleanResponse after setCachedResponse(cacheKey, cleanResponse)
RouteSuccess(call, raw, cache, time) ==
  LET cleanResponse == CleanResponse(raw)
  IN [call |-> [call EXCEPT !.pc = "returned", !.result = cleanResponse,
                            !.stored = TRUE, !.ended = time],
      cache |-> setCachedResponse(cache, call.key, cleanResponse, time)]

\* variant of the outer catch that stores the fixed reply like any other answer
RouteCatchStoresReply(call, outcome, cache, time) ==
  IF outcome.kind = "abort"
  THEN [call |-> [call EXCEPT !.pc = "threw", !.ended = time], cache |-> cache]
  ELSE [call |-> [call EXCEPT !.pc = "returned", !.result = Apology, !.apology = TRUE,
                              !.ended = time],
        cache |-> setCachedResponse(cache, call.key, Apology, time)]

\* the outer catch: rethrow an AbortError, otherwise return the fixed reply
RouteCatch(call, outcome, cache, time) ==
  IF outcome.kind = "abort"
  THEN [call |-> [call EXCEPT !.pc = "threw", !.ended = time], cache |-> cache]
  ELSE [call |-> [call EXCEPT !.pc = "returned", !.result = Apology, !.apology = TRUE,
                              !.ended = time],
        cache |-> cache]

\* from the entry of routeRequest to its first suspension (or its return on a hit)
RouteStart(u, memoryContext, hasDocument, token, cache, time) ==
  LET cacheKey == getCacheKey(u, memoryContext, hasDocument)
      got == getCachedResponse(cache, cacheKey, time)
      call == [NoCall EXCEPT !.u = u, !.mem = memoryContext, !.hasDoc = hasDocument,
                             !.token = token, !.key = cacheKey, !.at = time]
  IN IF Truthy(got.response)
     THEN [call |-> [call EXCEPT !.pc = "returned", !.hit = TRUE, !.result = got.response,
                                 !.ended = time],
           cache |-> got.cache]
     ELSE [call |-> [call EXCEPT !.pc = "primary",
                                 !.invoked = <<PrimaryBackend(u, hasDocument)>>],
           cache |-> got.cache]

\* variant of the inner catch without the AbortError test: every failure of the
\* primary backend, a cancellation included, goes on to the fallback
RoutePrimaryDoneNoAbortTest(call, outcome, cache, time) ==
  IF outcome.kind = "ok" THEN RouteSuccess(call, outcome.raw, cache, time)
  ELSE [call |-> [call EXCEPT !.pc = "fallback", !.invoked = Append(@, "groq")],
        cache |-> cache]

\* variant of the inner catch that calls the primary backend again instead of Groq
RoutePrimaryDoneRetry(call, outcome, cache, time) ==
  IF outcome.kind = "ok" THEN RouteSuccess(call, outcome.raw, cache, time)
  ELSE IF outcome.kind = "abort" THEN RouteCatch(call, outcome, cache, time)
  ELSE [call |-> [call EXCEPT !.pc = "fallback", !.invoked = Append(@, call.invoked[1])],
        cache |-> cache]

\* the primary backend call settles: the inner try/catch
RoutePrimaryDone(call, outcome, cache, time) ==
  IF outcome.kind = "ok" THEN RouteSuccess(call, outcome.raw, cache, time)
  ELSE IF outcome.kind = "abort" THEN RouteCatch(call, outcome, cache, time)
  ELSE [call |-> [call EXCEPT !.pc = "fallback", !.invoked = Append(@, "groq")],
        cache |-> cache]

\* the fallback (Groq) call settles
RouteFallbackDone(call, outcome, cache, time) ==
  IF outcome.kind = "ok" THEN RouteSuccess(call, outcome.raw, cache, time)
  ELSE RouteCatch(call, outcome, cache, time)

RouteBackendDone(call, outcome, cache, time) ==
  IF call.pc = "primary" THEN RoutePrimaryDone(call, outcome, cache, time)
  ELSE RouteFallbackDone(call, outcome, cache, time)

(***************************************************************************)
(* murfStreamSentences.  One invocation is a record: where it is suspended *)
(* ("gen": in generateChunkTTS for chunk i; "pause": in the 100 ms gap     *)
(* after chunk i; "endTimer": returned, the 150 ms tts_end timer pending;  *)
(* "done"), and what it did: the chunks whose generation it started, the   *)
(* chunks it sent as audio frames, the tts_end markers and errors it sent. *)
(* An outcome of generateChunkTTS is "ok", "error" or "abort" (an error    *)
(* for which axios.isCancel holds).                                        *)
(***************************************************************************)
NoStream ==
  [pc |-> "idle", text |-> EmptyText, chunks |-> <<>>, i |-> 0, token |-> 0, sent |-> 0,
   interrupted |-> FALSE,
   started |-> <<>>, inflight |-> {}, frames |-> <<>>, ttsEnd |-> 0, sinkGone |-> FALSE,
   firedInCall |-> FALSE]

\* the function has returned to its caller
StreamReturned(st) == st.pc \in {"endTimer", "done"}

\* variant of the test at line 222 without "ws.readyState === 1"
StreamAfterLoopNoSinkTest(st, open) ==
  IF ~st.interrupted THEN [st EXCEPT !.pc = "endTimer"] ELSE [st EXCEPT !.pc = "done"]

\* variant of the test at line 222 without "&& !interrupted"
StreamAfterLoopNoInterruptTest(st, open) ==
  IF open THEN [st EXCEPT !.pc = "endTimer"] ELSE [st EXCEPT !.pc = "done"]

\* after the loop: schedule tts_end when the sink is open and nothing interrupted
StreamAfterLoop(st, open) ==
  IF open /\ ~st.interrupted THEN [st EXCEPT !.pc = "endTimer"] ELSE [st EXCEPT !.pc = "done"]

\* variant of the loop head that starts the generation of chunk i + 1 together
\* with that of chunk i
StreamLoopPrefetch(st, i, isAborted, open) ==
  IF i > Len(st.chunks) THEN StreamAfterLoop([st EXCEPT !.i = i], open)
  ELSE IF isAborted THEN StreamAfterLoop([st EXCEPT !.i = i, !.interrupted = TRUE], open)
  ELSE [st EXCEPT !.pc = "gen", !.i = i, !.started = Append(@, i),
                  !.inflight = @ \cup {j \in {i, i + 1} : j <= Len(st.chunks)}]

\* the head of the loop for chunk index i (1-based): the signal check, then the
\* call of generateChunkTTS
StreamLoop(st, i, isAborted, open) ==
  IF i > Len(st.chunks) THEN StreamAfterLoop([st EXCEPT !.i = i], open)
  ELSE IF isAborted THEN StreamAfterLoop([st EXCEPT !.i = i, !.interrupted = TRUE], open)
  ELSE [st EXCEPT !.pc = "gen", !.i = i, !.started = Append(@, i), !.inflight = @ \cup {i}]

\* from the entry of murfStreamSentences to its first suspension
StreamStart(text, token, isAborted, open) ==
  IF ~Truthy(text) THEN [NoStream EXCEPT !.pc = "done", !.token = token]
  ELSE LET chunks == splitIntoChunks(sanitizeForTTS(text))
           st == [NoStream EXCEPT !.text = text, !.chunks = chunks, !.token = token]
       IN IF Len(chunks) = 0 THEN [st EXCEPT !.pc = "done"]
          ELSE StreamLoop(st, 1, isAborted, open)

\* variant in which a generation error ends the loop, as a cancellation does
StreamGenDoneStopOnError(st, outcome, isAborted, open) ==
  LET s0 == [st EXCEPT !.inflight = @ \ {st.i}]
  IN IF outcome.kind \in {"abort", "error"}
     THEN StreamAfterLoop([s0 EXCEPT !.interrupted = TRUE], open)
     ELSE IF isAborted
     THEN StreamAfterLoop([s0 EXCEPT !.interrupted = TRUE], open)
     ELSE IF open
     THEN LET s1 == [s0 EXCEPT !.frames = Append(@, st.i), !.sent = @ + 1]
          IN IF st.i < Len(st.chunks)
             THEN [s1 EXCEPT !.pc = "pause"]
             ELSE StreamLoop(s1, st.i + 1, isAborted, open)
     ELSE StreamAfterLoop([s0 EXCEPT !.sinkGone = TRUE], open)

\* variant without the signal test that follows generateChunkTTS (line 171)
StreamGenDoneNoAbortTest(st, outcome, isAborted, open) ==
  LET s0 == [st EXCEPT !.inflight = @ \ {st.i}]
  IN IF outcome.kind = "abort"
     THEN StreamAfterLoop([s0 EXCEPT !.interrupted = TRUE], open)
     ELSE IF outcome.kind = "error"
     THEN StreamLoop(s0, st.i + 1, isAborted, open)
     ELSE IF open
     THEN LET s1 == [s0 EXCEPT !.frames = Append(@, st.i), !.sent = @ + 1]
          IN IF st.i < Len(st.chunks)
             THEN [s1 EXCEPT !.pc = "pause"]
             ELSE StreamLoop(s1, st.i + 1, isAborted, open)
     ELSE StreamAfterLoop([s0 EXCEPT !.sinkGone = TRUE], open)

\* generateChunkTTS for chunk st.i settles
StreamGenDone(st, outcome, isAborted, open) ==
  LET s0 == [st EXCEPT !.inflight = @ \ {st.i}]
  IN IF outcome.kind = "abort"
     THEN StreamAfterLoop([s0 EXCEPT !.interrupted = TRUE], open)
     ELSE IF outcome.kind = "error"
     THEN StreamLoop(s0, st.i + 1, isAborted, open)
     ELSE IF isAborted
     THEN StreamAfterLoop([s0 EXCEPT !.interrupted = TRUE], open)
     ELSE IF open
     THEN LET s1 == [s0 EXCEPT !.frames = Append(@, st.i), !.sent = @ + 1]
          IN IF st.i < Len(st.chunks)
             THEN [s1 EXCEPT !.pc = "pause"]
             ELSE StreamLoop(s1, st.i + 1, isAborted, open)
     ELSE StreamAfterLoop([s0 EXCEPT !.sinkGone = TRUE], open)

\* the 100 ms gap after chunk st.i is over
StreamPauseDone(st, isAborted, open) == StreamLoop(st, st.i + 1, isAborted, open)

\* variant of the tts_end timer callback that sends nothing
StreamEndTimerSilent(st, open) == [st EXCEPT !.pc = "done"]

\* the 150 ms timer fires: ws.send of tts_end (a closed socket drops it)
StreamEndTimer(st, open) ==
  [st EXCEPT !.pc = "done", !.ttsEnd = IF open THEN @ + 1 ELSE @]


(***************************************************************************)
(* State.  One client connection with the recognizer session that its      *)
(* start_live message created (the closure of openDeepgramSocket), the     *)
(* process-wide response cache and the clock.                              *)
(***************************************************************************)
VARIABLES
  dgWs,                  \* the recognizer socket: "connecting", "open", "error", "closed"
  isOpen,                \* openDeepgramSocket: isOpen
  processingAudio,       \* openDeepgramSocket: processingAudio
  transcriptTimeout,     \* the pending debounce timer and what its callback captured
  currentTTSController,  \* the token the reference holds (0: null)
  memory,                \* openDeepgramSocket: memory
  dgConnection,          \* connection handler: dgConnection is this session (FALSE: null)
  sessionData,           \* the Map sessionData: its entries [sid, document] in insertion order
  wsOpen,                \* the client socket: readyState === 1
  turn,                  \* the timer callbacks that passed the guard, by number
  nturns,                \* how many there were
  call,                  \* the routeRequest calls, by number
  stream,                \* the murfStreamSentences invocations, by number
  aborted,               \* AbortController.signal.aborted, by token
  responseCache,         \* intelligentRouter.js: responseCache
  now,                   \* Date.now()
  orphaned,              \* the sessions start_live replaced: their sockets as they were left
  client                 \* app.js: audioQueue, isPlaying and the chunks being played

vars == <<dgWs, isOpen, processingAudio, transcriptTimeout, currentTTSController, memory,
          dgConnection, sessionData, wsOpen, turn, nturns, call, stream, aborted,
          responseCache, now, orphaned, client>>

Ids == 1..MaxTurns

\* the session id of the connection
OwnSession == "own"

\* sessionData.get(sid)?.document; "" when there is none
SessionDocument(data, sid) ==
  IF \E i \in 1..Len(data) : data[i].sid = sid
  THEN data[CHOOSE i \in 1..Len(data) : data[i].sid = sid].document
  ELSE ""

\* what a turn did, beside where it is: the messages it handed to clientWs.send in
\* order (log; the stop_audio of an interrupt is entered in every turn in flight), its
\* updateMemory calls and what they pushed, whether its token had fired when it used
\* the result of its call, whether an interrupt was detected while it was in flight
\* (bargedIn; bargedThinking: before its handleAction/routeRequest call settled),
\* and how far it had come when a cancellation first reached it (cut)
NoTurn ==
  [pc |-> "none", u |-> U_uh, path |-> "", reply |-> EmptyText, log |-> <<>>,
   memUpdates |-> 0, pushedUser |-> 0, pushedBot |-> 0, memBeforeGen |-> FALSE,
   firedAtUse |-> FALSE, bargedIn |-> FALSE, bargedThinking |-> FALSE,
   cut |-> FALSE, cutLog |-> 0, cutMem |-> 0, typeError |-> FALSE,
   over |-> "", superseded |-> FALSE]

\* the delay (100 ms after speech_final, 400 ms otherwise) is not kept: the timer
\* fires at any later moment
\* the pending timers: the one set by the latest final transcript (set, u; over is
\* the text of the pending timer that transcript replaced and extends), and those set by
\* earlier final transcripts that are still pending (stale)
NoTimer == [set |-> FALSE, u |-> U_uh, over |-> "", stale |-> {}]

\* transcript b continues transcript a: a.text is a proper prefix of b.text
Extends(b, a) == a = U_what /\ b = U_time

\* variant of line 262 that leaves the pending timer alone
clearTimeoutSkipped(tt) == tt

\* if (transcriptTimeout) clearTimeout(transcriptTimeout)
clearTimeout(tt) == [tt EXCEPT !.set = FALSE, !.u = U_uh, !.over = ""]

\* a later final transcript has arrived: a timer still pending is an earlier one
Supersede(tt) ==
  IF tt.set THEN [tt EXCEPT !.set = FALSE, !.u = U_uh, !.over = "", !.stale = @ \cup {tt.u}]
  ELSE tt

\* transcriptTimeout = setTimeout(callback capturing transcript u, delay)
setTimeout(tt, u, over) == [tt EXCEPT !.set = TRUE, !.u = u, !.over = over]

\* the timers that can fire
PendingTimers(tt) ==
  (IF tt.set THEN {[u |-> tt.u, over |-> tt.over, superseded |-> FALSE]} ELSE {})
    \cup {[u |-> x, over |-> "", superseded |-> TRUE] : x \in tt.stale}

\* the timers left when x has fired
TimerFired(tt, x) ==
  IF x.superseded THEN [tt EXCEPT !.stale = @ \ {x.u}]
  ELSE [tt EXCEPT !.set = FALSE, !.u = U_uh, !.over = ""]

\* the utterances the recognizer delivers, and the answers the backends give
Utterances == {U_hello, U_mail}
Answers == {AnsLong, AnsBare}
Confidences == {30, 95}

InFlight(t) == turn[t].pc \notin {"none", "done"}

IsAborted(token) == token # 0 /\ aborted[token]

\* a call or generation whose token has fired fails with the cancellation error,
\* unless its response was already complete; any other failure is delivered to
\* code whose token has not fired
BackendOutcomes(token) ==
  {Ok(a) : a \in Answers} \cup (IF IsAborted(token) THEN {Aborted} ELSE {Failed})

GenOutcomes(token) ==
  {Ok(EmptyText)} \cup (IF IsAborted(token) THEN {Aborted} ELSE {Failed})

(***************************************************************************)
(* The turn pipeline (the debounce timer callback), as functions of the    *)
(* session state S it reads and writes.                                    *)
(***************************************************************************)
Cur ==
  [pa |-> processingAudio, ctl |-> currentTTSController, mem |-> memory, turn |-> turn,
   call |-> call, stream |-> stream, cache |-> responseCache, ab |-> aborted]

Set(S) ==
  /\ processingAudio' = S.pa
  /\ currentTTSController' = S.ctl
  /\ memory' = S.mem
  /\ turn' = S.turn
  /\ call' = S.call
  /\ stream' = S.stream
  /\ responseCache' = S.cache
  /\ aborted' = S.ab

\* clientWs.send(msg) in turn t
Say(S, t, msg) == [S EXCEPT !.turn[t].log = Append(@, msg)]

\* a cancellation reaches turn t: remember how far it had come
Cut(S, t) ==
  IF S.turn[t].cut THEN S
  ELSE [S EXCEPT !.turn[t].cut = TRUE, !.turn[t].cutLog = Len(S.turn[t].log),
                 !.turn[t].cutMem = S.turn[t].memUpdates]

\* currentTTSController.abort(); currentTTSController = null
AbortCurrent(S) ==
  IF S.ctl = 0 THEN S
  ELSE Cut([S EXCEPT !.ab[S.ctl] = TRUE, !.ctl = 0], S.ctl)

\* updateMemory(transcript, botMsg) in turn t
TurnUpdateMemory(S, t, botMsg) ==
  LET u == S.turn[t].u
      m == updateMemory(S.mem, u, botMsg, t)
      S1 == [S EXCEPT !.mem = m,
                      !.turn[t].memUpdates = @ + 1,
                      !.turn[t].pushedUser =
                         IF m.lastUserMessages # S.mem.lastUserMessages THEN @ + 1 ELSE @,
                      !.turn[t].pushedBot =
                         IF m.lastBotMessages # S.mem.lastBotMessages THEN @ + 1 ELSE @,
                      !.turn[t].memBeforeGen = (S.stream[t].started = <<>>),
                      !.turn[t].firedAtUse = S.ab[t]]
  IN Say(S1, t, "memory_update")

\* the end of the try block: lines 329-331 and 366-371
TurnFinish(S, t) ==
  LET S1 == Say(S, t, "Listening")
  IN [S1 EXCEPT !.ctl = 0, !.pa = FALSE, !.turn[t].pc = "done"]

\* variant of the catch block that only reports the error
TurnCatchReportOnly(S, t, name) ==
  LET S1 == IF name = "AbortError" THEN S ELSE Say(S, t, "error")
  IN [S1 EXCEPT !.ctl = 0, !.turn[t].pc = "done"]

\* the catch block; name is the name of the error
TurnCatch(S, t, name) ==
  LET S1 == IF name = "AbortError" THEN S ELSE Say(S, t, "error")
      S2 == Say(S1, t, "Listening")
  IN [S2 EXCEPT !.pa = FALSE, !.ctl = 0, !.turn[t].pc = "done"]

\* note in the record of a stream whether its token has fired
Observe(st, isAborted) == [st EXCEPT !.firedInCall = isAborted]

\* await murfStreamSentences(text, clientWs, {signal}), up to its first suspension
TurnStream(S, t, text, token) ==
  LET fired == token # 0 /\ S.ab[token]
      st == Observe(StreamStart(text, token, fired, wsOpen), fired)
      S1 == [S EXCEPT !.stream[t] = st, !.turn[t].pc = "stream"]
  IN IF StreamReturned(st) THEN TurnFinish(S1, t) ELSE S1

\* the action path after handleAction returned a message: lines 310-327
TurnActionPath(S, t) ==
  LET message == ActionMessage(S.turn[t].u)
      S1 == Say(Say([S EXCEPT !.turn[t].path = "action", !.turn[t].reply = message],
                    t, "reply"), t, "Speaking")
      S2 == TurnUpdateMemory(S1, t, message)
      S3 == [S2 EXCEPT !.ctl = t]
  IN TurnStream(S3, t, message, t)

\* after routeRequest has settled: lines 348-364, or the catch block
TurnAfterRoute(S, t) ==
  IF S.call[t].pc = "threw" THEN TurnCatch(S, t, "AbortError")
  ELSE LET aiReply == S.call[t].result
           S1 == TurnUpdateMemory([S EXCEPT !.turn[t].reply = aiReply], t, aiReply)
           S2 == Say(Say(S1, t, "reply"), t, "Speaking")
       IN IF S2.ctl = 0
          THEN TurnCatch([S2 EXCEPT !.turn[t].typeError = TRUE], t, "TypeError")
          ELSE TurnStream(S2, t, aiReply, S2.ctl)

\* the AI path from line 338 to the first suspension of routeRequest
TurnRoute(S, t, documentContent) ==
  LET r == RouteStart(S.turn[t].u, MemoryContext(S.mem), documentContent, t, S.cache, now)
      S1 == [S EXCEPT !.ctl = t, !.turn[t].path = "ai", !.turn[t].pc = "route",
                      !.call[t] = r.call, !.cache = r.cache]
  IN IF r.call.pc = "returned" THEN TurnAfterRoute(S1, t) ELSE S1

\* the timer callback with the result of handleAction ignored
TurnBeginRoutesAll(S, t, u, documentContent) ==
  LET S1 == Say([S EXCEPT !.pa = TRUE, !.turn[t] = [NoTurn EXCEPT !.u = u, !.pc = "action"]],
                t, "Thinking")
  IN TurnRoute(S1, t, documentContent)

\* the timer callback from line 281 to its first suspension
TurnBegin(S, t, u, documentContent) ==
  LET S1 == Say([S EXCEPT !.pa = TRUE, !.turn[t] = [NoTurn EXCEPT !.u = u, !.pc = "action"]],
                t, "Thinking")
  IN IF u.act = "io" THEN S1
     ELSE IF u.act = "sync" THEN TurnActionPath(S1, t)
     ELSE TurnRoute(S1, t, documentContent)


(***************************************************************************)
(* Recognizer events: dgWs.on("open" | "message" | "close" | "error")      *)
(***************************************************************************)
DgOpen ==
  /\ dgWs = "connecting"
  /\ dgWs' = "open"
  /\ isOpen' = TRUE
  /\ UNCHANGED <<client, orphaned, processingAudio, transcriptTimeout, currentTTSController, memory,
                 dgConnection, sessionData, wsOpen, turn, nturns, call, stream, aborted,
                 responseCache, now>>

\* the interrupt branch: lines 231-244
Interrupt(S) ==
  LET S1 == AbortCurrent(S)
      S2 == [S1 EXCEPT !.turn = [t \in Ids |->
                 IF S1.turn[t].pc \in {"none", "done"} THEN S1.turn[t]
                 ELSE LET c == Cut(S1, t).turn[t]
                      IN [c EXCEPT !.bargedIn = TRUE,
                                   !.bargedThinking = @ \/ c.pc \in {"action", "route"},
                                   !.log = Append(@, "stop_audio")]]]
  IN [S2 EXCEPT !.pa = FALSE]

\* shouldProcess: lines 273-277
shouldProcess(u, speechFinal, confidence) ==
  speechFinal \/ u.len > 8 \/ u.q \/ confidence > 90

\* variant of the handler that sets the timer without the test of processingAudio
DgMessageNoActiveTest(u, isFinal, speechFinal, confidence) ==
  /\ dgWs = "open"
  /\ isOpen
  /\ LET interrupt == processingAudio /\ ~isFinal /\ u.len > BARGE_IN_MIN
         S == IF interrupt THEN Interrupt(Cur) ELSE Cur
         noise == confidence < 50 /\ u.len < 3
         final == ~noise /\ isFinal
     IN /\ Set(IF final /\ u.name # "" THEN [S EXCEPT !.mem.userName = u.name] ELSE S)
        /\ transcriptTimeout' =
             IF ~final THEN transcriptTimeout
             ELSE LET over == IF transcriptTimeout.set /\ Extends(u, transcriptTimeout.u)
                              THEN transcriptTimeout.u.text ELSE ""
                      cleared == Supersede(clearTimeout(transcriptTimeout))
                  IN IF shouldProcess(u, speechFinal, confidence)
                     THEN setTimeout(cleared, u, over)
                     ELSE cleared
  /\ UNCHANGED <<client, orphaned, dgWs, isOpen, dgConnection, sessionData, wsOpen, nturns, now>>

\* a Results message with alternatives[0] = {transcript: u, confidence}
DgMessage(u, isFinal, speechFinal, confidence) ==
  /\ dgWs = "open"
  /\ isOpen
  /\ LET interrupt == processingAudio /\ ~isFinal /\ u.len > BARGE_IN_MIN
         S == IF interrupt THEN Interrupt(Cur) ELSE Cur
         noise == confidence < 50 /\ u.len < 3
         final == ~noise /\ isFinal
     IN /\ Set(IF final /\ u.name # "" THEN [S EXCEPT !.mem.userName = u.name] ELSE S)
        /\ transcriptTimeout' =
             IF ~final THEN transcriptTimeout
             ELSE LET over == IF transcriptTimeout.set /\ Extends(u, transcriptTimeout.u)
                              THEN transcriptTimeout.u.text ELSE ""
                      cleared == Supersede(clearTimeout(transcriptTimeout))
                  IN IF shouldProcess(u, speechFinal, confidence) /\ ~S.pa
                     THEN setTimeout(cleared, u, over)
                     ELSE cleared
  /\ UNCHANGED <<client, orphaned, dgWs, isOpen, dgConnection, sessionData, wsOpen, nturns, now>>

\* what dgWs.on("close") and dgWs.on("error") hand to clientWs.send: they set isOpen,
\* clear the intervals and timers and write to the console
DgCloseSends == <<>>
DgErrorSends == <<>>

DgClose ==
  /\ dgWs # "closed"
  /\ dgWs' = "closed"
  /\ isOpen' = FALSE
  /\ transcriptTimeout' = clearTimeout(transcriptTimeout)
  /\ UNCHANGED <<client, orphaned, processingAudio, currentTTSController, memory, dgConnection, sessionData,
                 wsOpen, turn, nturns, call, stream, aborted, responseCache, now>>

DgError ==
  /\ dgWs \in {"connecting", "open"}
  /\ dgWs' = "error"
  /\ isOpen' = FALSE
  /\ UNCHANGED <<client, orphaned, processingAudio, transcriptTimeout, currentTTSController, memory,
                 dgConnection, sessionData, wsOpen, turn, nturns, call, stream, aborted,
                 responseCache, now>>

(***************************************************************************)
(* The debounce timer fires, and the suspended calls of a turn settle      *)
(***************************************************************************)
TimerFire ==
  /\ \E x \in PendingTimers(transcriptTimeout) :
       /\ transcriptTimeout' = TimerFired(transcriptTimeout, x)
       /\ IF processingAudio
          THEN UNCHANGED <<processingAudio, currentTTSController, memory, turn, nturns, call,
                           stream, aborted, responseCache>>
          ELSE /\ nturns < MaxTurns
               /\ nturns' = nturns + 1
               /\ LET t == nturns + 1
                      S == TurnBegin(Cur, t, x.u, SessionDocument(sessionData, OwnSession) # "")
                  IN Set([S EXCEPT !.turn[t].over = x.over,
                                   !.turn[t].superseded = x.superseded])
  /\ UNCHANGED <<client, orphaned, dgWs, isOpen, dgConnection, sessionData, wsOpen, now>>

\* handleAction returns from its Gmail/Calendar call
ActionDone(t) ==
  /\ turn[t].pc = "action"
  /\ Set(TurnActionPath(Cur, t))
  /\ UNCHANGED <<client, orphaned, dgWs, isOpen, transcriptTimeout, dgConnection, sessionData, wsOpen,
                 nturns, now>>

\* a backend call of routeRequest call t settles; the turn that made it goes on
BackendDone(t, outcome) ==
  /\ call[t].pc \in {"primary", "fallback"}
  /\ outcome \in BackendOutcomes(call[t].token)
  /\ LET r == RouteBackendDone(call[t], outcome, responseCache, now)
         c == [r.call EXCEPT !.outcomes = Append(@, outcome)]
         S == [Cur EXCEPT !.call[t] = c, !.cache = r.cache]
     IN Set(IF c.pc \in {"returned", "threw"} /\ turn[t].pc = "route"
            THEN TurnAfterRoute(S, t) ELSE S)
  /\ UNCHANGED <<client, orphaned, dgWs, isOpen, transcriptTimeout, dgConnection, sessionData, wsOpen,
                 nturns, now>>

\* stream t moves to st; the turn that awaits it goes on when it returned
StreamStep(t, st) ==
  LET st1 == Observe(st, IsAborted(st.token))
      S == [Cur EXCEPT !.stream[t] = st1]
  IN Set(IF StreamReturned(st1) /\ turn[t].pc = "stream" THEN TurnFinish(S, t) ELSE S)

\* generateChunkTTS of turn t's stream settles
GenDone(t, outcome) ==
  /\ stream[t].pc = "gen"
  /\ outcome \in GenOutcomes(stream[t].token)
  /\ StreamStep(t, StreamGenDone(stream[t], outcome, IsAborted(stream[t].token), wsOpen))
  /\ UNCHANGED <<client, orphaned, dgWs, isOpen, transcriptTimeout, dgConnection, sessionData, wsOpen,
                 nturns, now>>

\* the gap between two chunks is over
PauseDone(t) ==
  /\ stream[t].pc = "pause"
  /\ StreamStep(t, StreamPauseDone(stream[t], IsAborted(stream[t].token), wsOpen))
  /\ UNCHANGED <<client, orphaned, dgWs, isOpen, transcriptTimeout, dgConnection, sessionData, wsOpen,
                 nturns, now>>

\* the tts_end timer of a returned stream fires
EndTimer(t) ==
  /\ stream[t].pc = "endTimer"
  /\ stream' = [stream EXCEPT ![t] = StreamEndTimer(stream[t], wsOpen)]
  /\ UNCHANGED <<client, orphaned, dgWs, isOpen, processingAudio, transcriptTimeout, currentTTSController,
                 memory, dgConnection, sessionData, wsOpen, turn, nturns, call, aborted,
                 responseCache, now>>

(***************************************************************************)
(* Client control messages (ws.on("message")), disconnect, upload, time    *)
(***************************************************************************)
\* client_stop_tts: cancelCurrentTTS of the session dgConnection refers to; the
\* stop_audio it then sends belongs to no turn and is not kept
ClientStopTtsResult == IF dgConnection THEN AbortCurrent(Cur) ELSE Cur

ClientStopTts ==
  /\ wsOpen
  /\ Set(ClientStopTtsResult)
  /\ UNCHANGED <<client, orphaned, dgWs, isOpen, transcriptTimeout, dgConnection, sessionData, wsOpen,
                 nturns, now>>

\* stop_live: dgWs.close() (its close event is DgClose) and dgConnection = null
StopLive ==
  /\ wsOpen
  /\ dgConnection
  /\ dgConnection' = FALSE
  /\ UNCHANGED <<client, orphaned, dgWs, isOpen, processingAudio, transcriptTimeout, currentTTSController,
                 memory, sessionData, wsOpen, turn, nturns, call, stream, aborted,
                 responseCache, now>>

\* the client socket closes
WsClose ==
  /\ wsOpen
  /\ wsOpen' = FALSE
  /\ UNCHANGED <<client, orphaned, dgWs, isOpen, processingAudio, transcriptTimeout, currentTTSController,
                 memory, dgConnection, sessionData, turn, nturns, call, stream, aborted,
                 responseCache, now>>

\* POST /upload with header x-session-id = sessionId and a file with text doc: the
\* loop over sessionData.entries() and the creation of a session when none was stored
UploadStore(data, sessionId, doc) ==
  LET hit == {i \in 1..Len(data) : data[i].sid = sessionId \/ i = 1}
      looped == [i \in 1..Len(data) |->
                   IF i \in hit THEN [data[i] EXCEPT !.document = doc] ELSE data[i]]
  IN IF hit = {} THEN Append(looped, [sid |-> sessionId, document |-> doc]) ELSE looped

Upload(sessionId, doc) ==
  /\ sessionData' = UploadStore(sessionData, sessionId, doc)
  /\ UNCHANGED <<client, orphaned, dgWs, isOpen, processingAudio, transcriptTimeout, currentTTSController,
                 memory, dgConnection, wsOpen, turn, nturns, call, stream, aborted,
                 responseCache, now>>

Tick ==
  /\ now + TickStep <= MaxTime
  /\ now' = now + TickStep
  /\ UNCHANGED <<client, orphaned, dgWs, isOpen, processingAudio, transcriptTimeout, currentTTSController,
                 memory, dgConnection, sessionData, wsOpen, turn, nturns, call, stream,
                 aborted, responseCache>>

\* the cache cleanup interval
Sweep ==
  /\ responseCache' = CacheCleanup(responseCache, now)
  /\ responseCache' # responseCache
  /\ UNCHANGED <<client, orphaned, dgWs, isOpen, processingAudio, transcriptTimeout, currentTTSController,
                 memory, dgConnection, sessionData, wsOpen, turn, nturns, call, stream,
                 aborted, now>>

(***************************************************************************)
(* The client (app.js): the playback queue.  Frames are numbered in the    *)
(* order of their arrival; playing holds the chunks whose playAudioChunk   *)
(* has not settled, one for each processAudioQueue loop that is running;   *)
(* played lists the chunks in the order in which their playback began.     *)
(***************************************************************************)
NoPlayback ==
  [audioQueue |-> <<>>, isPlaying |-> FALSE, playing |-> {}, received |-> 0, played |-> <<>>]

\* const audioData = audioQueue.shift(); await playAudioChunk(audioData)
PlayNext(c) ==
  [c EXCEPT !.audioQueue = Tail(@), !.playing = @ \cup {Head(c.audioQueue)},
            !.played = Append(@, Head(c.audioQueue))]

\* processAudioQueue up to its first await
processAudioQueue(c) ==
  IF c.isPlaying \/ c.audioQueue = <<>> THEN c
  ELSE PlayNext([c EXCEPT !.isPlaying = TRUE])

\* a binary frame arrives
handleAudioData ==
  /\ client.received < MaxFrames
  /\ client' = processAudioQueue([client EXCEPT !.received = @ + 1,
                                                !.audioQueue = Append(@, client.received + 1)])
  /\ UNCHANGED <<orphaned, dgWs, isOpen, processingAudio, transcriptTimeout, currentTTSController,
                 memory, dgConnection, sessionData, wsOpen, turn, nturns, call, stream,
                 aborted, responseCache, now>>

\* playAudioChunk(x) settles (source.onended, or a decoding error caught by the loop):
\* the loop that awaited it takes the next chunk or ends
PlayEnded(x) ==
  /\ x \in client.playing
  /\ LET c == [client EXCEPT !.playing = @ \ {x}]
     IN client' = IF c.audioQueue # <<>> THEN PlayNext(c) ELSE [c EXCEPT !.isPlaying = FALSE]
  /\ UNCHANGED <<orphaned, dgWs, isOpen, processingAudio, transcriptTimeout, currentTTSController,
                 memory, dgConnection, sessionData, wsOpen, turn, nturns, call, stream,
                 aborted, responseCache, now>>

\* a stop_audio message arrives
stopAudio ==
  /\ client' = [client EXCEPT !.audioQueue = <<>>, !.isPlaying = FALSE]
  /\ UNCHANGED <<orphaned, dgWs, isOpen, processingAudio, transcriptTimeout, currentTTSController,
                 memory, dgConnection, sessionData, wsOpen, turn, nturns, call, stream,
                 aborted, responseCache, now>>

ClientNext ==
  \/ handleAudioData
  \/ \E x \in 1..MaxFrames : PlayEnded(x)
  \/ stopAudio

Init ==
  /\ dgWs = "connecting"
  /\ isOpen = FALSE
  /\ processingAudio = FALSE
  /\ transcriptTimeout = NoTimer
  /\ currentTTSController = 0
  /\ memory = EmptyMemory
  /\ dgConnection = TRUE
  /\ sessionData = <<[sid |-> OwnSession, document |-> ""]>>
  /\ client = NoPlayback
  /\ wsOpen = TRUE
  /\ turn = [t \in Ids |-> NoTurn]
  /\ nturns = 0
  /\ call = [t \in Ids |-> NoCall]
  /\ stream = [t \in Ids |-> NoStream]
  /\ aborted = [t \in Ids |-> FALSE]
  /\ responseCache = <<>>
  /\ now = 0
  /\ orphaned = <<>>

(***************************************************************************)
(* The session: everything that can happen to one recognizer session       *)
(* within one TTL window of the cache.                                     *)
(***************************************************************************)
Next ==
  \/ DgOpen
  \/ \E u \in Utterances, isFinal \in BOOLEAN, speechFinal \in BOOLEAN, c \in Confidences :
       DgMessage(u, isFinal, speechFinal, c)
  \/ DgClose
  \/ DgError
  \/ TimerFire
  \/ \E t \in Ids : ActionDone(t)
  \/ \E t \in Ids, o \in {Ok(a) : a \in Answers} \cup {Aborted, Failed} : BackendDone(t, o)
  \/ \E t \in Ids, o \in {Ok(EmptyText), Aborted, Failed} : GenDone(t, o)
  \/ \E t \in Ids : PauseDone(t)
  \/ \E t \in Ids : EndTimer(t)
  \/ ClientStopTts
  \/ StopLive
  \/ WsClose

Spec == Init /\ [][Next]_vars

SpecClient == Init /\ [][ClientNext]_vars

(***************************************************************************)
(* routeRequest on its own: calls made by any caller, with any of the      *)
(* utterances, with or without a document, each with its own token, which  *)
(* may fire at any time; the clock advances and the cleanup interval runs. *)
(***************************************************************************)
\* the requests made: two spellings of one question, and the question asked of a document
RouterRequests == {<<U_time, FALSE>>, <<U_time2, FALSE>>, <<U_time, TRUE>>}
RouterAnswers == {AnsPrefixed, AnsBare}

\* calls are numbered in the order in which they are made
RouteCall(c, u, hasDocument) ==
  /\ call[c].pc = "idle"
  /\ IF c = 1 THEN TRUE ELSE call[c - 1].pc # "idle"
  /\ LET r == RouteStart(u, MemoryContext(EmptyMemory), hasDocument, c, responseCache, now)
     IN /\ call' = [call EXCEPT ![c] =
                      [r.call EXCEPT !.after = {d \in Ids : call[d].pc = "returned"}]]
        /\ responseCache' = r.cache
  /\ UNCHANGED <<client, orphaned, dgWs, isOpen, processingAudio, transcriptTimeout, currentTTSController,
                 memory, dgConnection, sessionData, wsOpen, turn, nturns, stream, aborted, now>>

RouterBackendDone(c, outcome) ==
  /\ call[c].pc \in {"primary", "fallback"}
  /\ outcome \in {Ok(a) : a \in RouterAnswers}
                   \cup (IF IsAborted(call[c].token) THEN {Aborted} ELSE {Failed})
  /\ LET r == RouteBackendDone(call[c], outcome, responseCache, now)
     IN /\ call' = [call EXCEPT ![c] = [r.call EXCEPT !.outcomes = Append(@, outcome)]]
        /\ responseCache' = r.cache
  /\ UNCHANGED <<client, orphaned, dgWs, isOpen, processingAudio, transcriptTimeout, currentTTSController,
                 memory, dgConnection, sessionData, wsOpen, turn, nturns, stream, aborted, now>>

\* the owner of token k calls abort() while a call made with the token is suspended
AbortToken(k) ==
  /\ ~aborted[k]
  /\ call[k].pc \in {"primary", "fallback"} \/ stream[k].pc \in {"gen", "pause"}
  /\ aborted' = [aborted EXCEPT ![k] = TRUE]
  /\ UNCHANGED <<client, orphaned, dgWs, isOpen, processingAudio, transcriptTimeout, currentTTSController,
                 memory, dgConnection, sessionData, wsOpen, turn, nturns, call, stream,
                 responseCache, now>>

RouterNext ==
  \/ \E c \in Ids, r \in RouterRequests : RouteCall(c, r[1], r[2])
  \/ \E c \in Ids, o \in {Ok(a) : a \in RouterAnswers} \cup {Aborted, Failed} :
       RouterBackendDone(c, o)
  \/ \E k \in Ids : AbortToken(k)
  \/ Tick
  \/ Sweep

SpecRouter == Init /\ [][RouterNext]_vars

(***************************************************************************)
(* murfStreamSentences on its own: invocations with any of the texts, each *)
(* with its own token, which may have fired before the call and may fire   *)
(* at any time; the client socket may close at any time.                   *)
(***************************************************************************)
StreamTexts == {EmptyText, AnsShort, AnsLong, Txt(FALSE, TRUE, <<>>)}

\* the owner of token k calls abort() before murfStreamSentences is called with it
\* (the AI path creates the token before routeRequest, the stream uses it after)
AbortBeforeStream(k) ==
  /\ ~aborted[k]
  /\ stream[k].pc = "idle"
  /\ IF k = 1 THEN TRUE ELSE stream[k - 1].pc # "idle"
  /\ aborted' = [aborted EXCEPT ![k] = TRUE]
  /\ UNCHANGED <<client, orphaned, dgWs, isOpen, processingAudio, transcriptTimeout, currentTTSController,
                 memory, dgConnection, sessionData, wsOpen, turn, nturns, call, stream,
                 responseCache, now>>

\* invocations are numbered in the order in which they are made
StreamCall(s, text) ==
  /\ stream[s].pc = "idle"
  /\ IF s = 1 THEN TRUE ELSE stream[s - 1].pc # "idle"
  /\ stream' = [stream EXCEPT ![s] =
                  Observe(StreamStart(text, s, aborted[s], wsOpen), aborted[s])]
  /\ UNCHANGED <<client, orphaned, dgWs, isOpen, processingAudio, transcriptTimeout, currentTTSController,
                 memory, dgConnection, sessionData, wsOpen, turn, nturns, call, aborted,
                 responseCache, now>>

TtsNext ==
  \/ \E s \in Ids, text \in StreamTexts : StreamCall(s, text)
  \/ \E s \in Ids, o \in {Ok(EmptyText), Aborted, Failed} : GenDone(s, o)
  \/ \E s \in Ids : PauseDone(s)
  \/ \E s \in Ids : EndTimer(s)
  \/ \E k \in Ids : AbortToken(k)
  \/ \E k \in Ids : AbortBeforeStream(k)
  \/ WsClose

SpecTts == Init /\ [][TtsNext]_vars

(***************************************************************************)
(* The debounce of final transcripts on its own: a recognizer that         *)
(* delivers a transcript and its continuation, in any order and at any     *)
(* pace, and the turns the timer starts; a turn ends when its backend call  *)
(* returns an empty answer or is cancelled.                                *)
(***************************************************************************)
DebounceUtterances == {U_what, U_time, U_hello, U_yes}

DebounceNext ==
  \/ DgOpen
  \/ \E u \in DebounceUtterances, isFinal \in BOOLEAN, speechFinal \in BOOLEAN,
        c \in Confidences :
       DgMessage(u, isFinal, speechFinal, c)
  \/ DgClose
  \/ TimerFire
  \/ \E t \in Ids, o \in {Ok(AnsBare), Aborted} : BackendDone(t, o)

SpecDebounce == Init /\ [][DebounceNext]_vars

C24_CandidateNotDiscarded ==
  [][(transcriptTimeout.set /\ ~processingAudio /\ ~transcriptTimeout'.set) =>
       (nturns' # nturns \/ dgWs' # dgWs)]_vars

\* C25: while processingAudio is set, neither a final transcript nor the firing of a
\* debounce timer starts another turn or leaves a new timer pending; and at most one
\* debounce timer is pending at any time.
C25_NoSecondTurnWhileActive ==
  /\ [](Cardinality(PendingTimers(transcriptTimeout)) <= 1)
  /\ [][processingAudio =>
          /\ nturns' = nturns
          /\ transcriptTimeout'.set => transcriptTimeout' = transcriptTimeout]_vars

\* a turn is active and the recognizer can deliver a final transcript
C25_Witness ==
  /\ processingAudio
  /\ nturns = 1 /\ InFlight(1)
  /\ ENABLED DgMessage(U_time, TRUE, TRUE, 95)

\* the conditions under which a final transcript is a turn-completion candidate: the
\* end-of-speech marker, a text longer than 8 characters, a text containing "?" or
\* ".", or a confidence above 0.9
Candidate(u, speechFinal, confidence) ==
  speechFinal \/ u.len > 8 \/ u.q \/ u.dot \/ confidence > 90

\* C26: a final transcript received while no turn is active starts the debounce
\* timer if and only if it carries the end-of-speech marker, or its text is longer
\* than the length threshold, or its text contains "?" or ".", or its confidence is
\* above 0.9.
C26_CandidateConditions ==
  [][\A u \in DebounceUtterances, speechFinal \in BOOLEAN, c \in Confidences :
       (~processingAudio /\ DgMessage(u, TRUE, speechFinal, c)) =>
         ((transcriptTimeout'.set /\ transcriptTimeout'.u = u)
            <=> Candidate(u, speechFinal, c))]_vars

(***************************************************************************)
(* splitIntoChunks on its own: murfStreamSentences called with texts that  *)
(* exercise the chunker, never cancelled.                                  *)
(***************************************************************************)
ChunkerTexts == {EmptyText, AnsLong, TxtComma, TxtShortThenLong, TxtAtomic, TxtThree}

ChunkerNext ==
  \/ \E s \in Ids, text \in ChunkerTexts : StreamCall(s, text)
  \/ \E s \in Ids, o \in {Ok(EmptyText), Failed} : GenDone(s, o)
  \/ \E s \in Ids : PauseDone(s)
  \/ \E s \in Ids : EndTimer(s)

SpecChunker == Init /\ [][ChunkerNext]_vars

(***************************************************************************)
(* The client connection: ws.on("message") for text frames, with the       *)
(* recognizer sessions that start_live creates.  Turns are started and     *)
(* cancelled; their backend calls stay suspended.                          *)
(***************************************************************************)
\* start_live: dgConnection = openDeepgramSocket(ws, sessionId).  The session that
\* dgConnection referred to, or that stop_live let go of, is left as it is.
StartLive ==
  /\ wsOpen
  /\ Len(orphaned) < MaxRestarts
  /\ orphaned' = Append(orphaned, [dgWs |-> dgWs, referenced |-> dgConnection])
  /\ dgWs' = "connecting"
  /\ isOpen' = FALSE
  /\ processingAudio' = FALSE
  /\ transcriptTimeout' = NoTimer
  /\ currentTTSController' = 0
  /\ memory' = EmptyMemory
  /\ dgConnection' = TRUE
  /\ UNCHANGED <<client, sessionData, wsOpen, turn, nturns, call, stream, aborted, responseCache,
                 now>>

\* a text frame: whether JSON.parse accepts it, and msg.type ("": none)
ControlMessages ==
  {[json |-> FALSE, type |-> ""]}
    \cup {[json |-> TRUE, type |-> t] :
            t \in {"start_live", "stop_live", "client_stop_tts", "voice_change", "ping", ""}}

RecognisedTypes == {"start_live", "stop_live", "client_stop_tts", "voice_change"}

\* what the handler hands to ws.send
WsSends(m) ==
  IF ~m.json THEN <<>>
  ELSE IF m.type = "start_live" THEN <<"Connecting">>
  ELSE IF m.type = "stop_live" THEN <<"Stopped">>
  ELSE IF m.type = "client_stop_tts" THEN <<"stop_audio">>
  ELSE IF m.type = "voice_change" THEN <<"voice_changed">>
  ELSE <<>>

\* variant of the handler in which an unrecognised type is handled as stop_live
WsMessageDefaultStop(m) ==
  /\ wsOpen
  /\ IF ~m.json THEN UNCHANGED vars
     ELSE IF m.type = "start_live" THEN StartLive
     ELSE IF m.type = "client_stop_tts" THEN ClientStopTts
     ELSE IF m.type = "voice_change" THEN UNCHANGED vars
     ELSE StopLive

\* ws.on("message") for a text frame: JSON.parse in a try with an empty catch, then
\* one if per recognised type (voice_change sets the voice, which is not kept here)
WsMessage(m) ==
  /\ wsOpen
  /\ IF ~m.json THEN UNCHANGED vars
     ELSE IF m.type = "start_live" THEN StartLive
     ELSE IF m.type = "stop_live" THEN StopLive
     ELSE IF m.type = "client_stop_tts" THEN ClientStopTts
     ELSE UNCHANGED vars

LiveUtterances == {U_hello}

LiveNext ==
  \/ \E m \in ControlMessages : WsMessage(m)
  \/ DgOpen
  \/ \E u \in LiveUtterances, isFinal \in BOOLEAN, speechFinal \in BOOLEAN :
       DgMessage(u, isFinal, speechFinal, 95)
  \/ DgClose
  \/ DgError
  \/ TimerFire
  \/ WsClose

SpecLive == Init /\ [][LiveNext]_vars

(***************************************************************************)
(* Properties of the client connection (SpecLive)                          *)
(***************************************************************************)
\* C18: a control message that is not valid JSON, or is valid JSON without a
\* recognised type, is ignored: the handler sends nothing to the client and leaves
\* the recognizer session, the active turn, the token and the session data unchanged.
C18_UnrecognisedIgnored ==
  [][\A m \in ControlMessages :
       ((~m.json \/ m.type \notin RecognisedTypes) /\ WsMessage(m)) =>
         (WsSends(m) = <<>> /\ UNCHANGED vars)]_vars

\* a state in which such a message finds a session with a turn in flight and its
\* token live
C18_Witness ==
  /\ wsOpen /\ dgConnection /\ dgWs = "open"
  /\ processingAudio
  /\ currentTTSController # 0 /\ ~aborted[currentTTSController]
  /\ ENABLED WsMessage([json |-> TRUE, type |-> "ping"])

\* C28: when the recognizer socket closes or fails, a notification of the disconnect
\* is sent to the client.
C28_DisconnectNotified ==
  [][/\ (dgWs # "closed" /\ dgWs' = "closed") => DgCloseSends # <<>>
     /\ (dgWs # "error" /\ dgWs' = "error") => DgErrorSends # <<>>]_vars

\* a recognizer session that can still send to the client or start a turn: its socket
\* is connecting or open and nothing has asked it to close
Live(s) == s.referenced /\ s.dgWs \in {"connecting", "open"}

\* C19: after any sequence of start_live and stop_live messages at most one
\* recognizer session created for the connection is still able to start turns or to
\* send messages to the client.
C19_OneLiveSession ==
  Cardinality({i \in 1..Len(orphaned) : Live(orphaned[i])})
    + (IF dgWs \in {"connecting", "open"} THEN 1 ELSE 0) <= 1

(***************************************************************************)
(* Query texts character by character, as getCacheKey normalises them:     *)
(* text.toLowerCase().trim().replace(/[^\w\s]/g, '').                      *)
(***************************************************************************)
toLowerCase(s) ==
  [i \in 1..Len(s) |-> IF s[i] = "A" THEN "a" ELSE IF s[i] = "B" THEN "b" ELSE s[i]]

\* \s and \w
IsSpace(c) == c = " "
IsWordChar(c) == c \in {"a", "b", "c", "d", "e", "f", "g", "h", "i", "j", "k", "A", "B"}

RECURSIVE trimStart(_)
trimStart(s) == IF s # <<>> /\ IsSpace(Head(s)) THEN trimStart(Tail(s)) ELSE s

RECURSIVE trimEnd(_)
trimEnd(s) ==
  IF s # <<>> /\ IsSpace(s[Len(s)]) THEN trimEnd(SubSeq(s, 1, Len(s) - 1)) ELSE s

trim(s) == trimEnd(trimStart(s))

\* replace(/[^\w\s]/g, '')
stripNonWord(s) == SelectSeq(s, LAMBDA c : IsWordChar(c) \/ IsSpace(c))

normalized(s) == stripNonWord(trim(toLowerCase(s)))

\* an utterance given by its characters
UttChars(s) == Utt(s, Len(s), normalized(s))

(***************************************************************************)
(* The response cache on its own: setCachedResponse and getCachedResponse  *)
(* applied in any order to distinct queries, numbered in the order of      *)
(* their first use, all within one period of CACHE_TTL.                    *)
(***************************************************************************)
QueryLetters == <<"a", "b", "c", "d", "e", "f", "g", "h", "i", "j", "k">>

\* the n-th query text: two letters
Query(n) ==
  UttChars(<<QueryLetters[((n - 1) \div Len(QueryLetters)) + 1],
             QueryLetters[((n - 1) % Len(QueryLetters)) + 1]>>)

\* one query more than the cache may hold
CacheQueries == 1..(MAX_CACHE_SIZE + 1)

QueryKey(n) == getCacheKey(Query(n), MemoryContext(EmptyMemory), FALSE)

\* setCachedResponse(cacheKey, cleanResponse): the first query again, or a query that
\* has no entry, the queries being first stored in the order of their numbers
CacheStore(n) ==
  /\ IF n = 1 THEN TRUE
     ELSE /\ CacheIndex(responseCache, QueryKey(n)) = 0
          /\ CacheIndex(responseCache, QueryKey(n - 1)) # 0
  /\ responseCache' = setCachedResponse(responseCache, QueryKey(n), AnsShort, now)
  /\ UNCHANGED <<client, orphaned, dgWs, isOpen, processingAudio, transcriptTimeout, currentTTSController,
                 memory, dgConnection, sessionData, wsOpen, turn, nturns, call, stream,
                 aborted, now>>

\* getCachedResponse(cacheKey)
CacheLookup(n) ==
  /\ responseCache' = getCachedResponse(responseCache, QueryKey(n), now).cache
  /\ UNCHANGED <<client, orphaned, dgWs, isOpen, processingAudio, transcriptTimeout, currentTTSController,
                 memory, dgConnection, sessionData, wsOpen, turn, nturns, call, stream,
                 aborted, now>>

CacheNext ==
  \/ \E n \in CacheQueries : CacheStore(n)
  \/ \E n \in CacheQueries : CacheLookup(n)

SpecCache == Init /\ [][CacheNext]_vars

(***************************************************************************)
(* getCacheKey on its own: routeRequest called with texts that differ in   *)
(* case, punctuation and spacing, with and without a document.             *)
(***************************************************************************)
\* "a b", "a  b", "A b", "a! b", "a ! b" and "ab"
FingerprintTexts ==
  {<<"a", " ", "b">>, <<"a", " ", " ", "b">>, <<"A", " ", "b">>, <<"a", "!", " ", "b">>,
   <<"a", " ", "!", " ", "b">>, <<"a", "b">>}

FingerprintNext ==
  \/ \E c \in Ids, s \in FingerprintTexts, hasDocument \in BOOLEAN :
       RouteCall(c, UttChars(s), hasDocument)
  \/ \E c \in Ids, o \in {Ok(AnsPrefixed), Failed} : RouterBackendDone(c, o)

SpecFingerprint == Init /\ [][FingerprintNext]_vars

\* runs of whitespace replaced by one space
RECURSIVE collapseWhitespace(_)
collapseWhitespace(s) ==
  IF Len(s) < 2 THEN s
  ELSE IF IsSpace(s[1]) /\ IsSpace(s[2]) THEN collapseWhitespace(Tail(s))
  ELSE <<Head(s)>> \o collapseWhitespace(Tail(s))

\* a text lowercased, without punctuation, its whitespace collapsed
LowerStripCollapse(s) == trim(collapseWhitespace(stripNonWord(toLowerCase(s))))

\* C16: two requests are given the same cache key exactly when their texts are equal
\* after lowercasing, stripping punctuation and collapsing whitespace and both or
\* neither of them has a document attached.
C16_Fingerprint ==
  \A c, d \in Ids :
     (call[c].pc # "idle" /\ call[d].pc # "idle") =>
       ((call[c].key = call[d].key) <=>
          /\ LowerStripCollapse(call[c].u.text) = LowerStripCollapse(call[d].u.text)
          /\ call[c].hasDoc = call[d].hasDoc)

(***************************************************************************)
(* Properties of the response cache (SpecCache)                            *)
(***************************************************************************)
\* C14: after any sequence of stores and lookups the response cache holds at most
\* MAX_CACHE_SIZE entries: a store made at capacity evicts an existing entry.
C14_CacheBounded == Len(responseCache) <= MAX_CACHE_SIZE

\* C15: a lookup never returns an entry whose age is at least CACHE_TTL: the lookup
\* reports such an entry as absent and removes it from the cache; and the cleanup
\* interval removes only entries older than CACHE_TTL.
C15_LookupExpiry ==
  [][/\ \A c \in Ids :
          (call[c].pc = "idle" /\ call'[c].pc # "idle") =>
            LET i == CacheIndex(responseCache, call'[c].key)
            IN (i # 0 /\ now - responseCache[i].timestamp >= CACHE_TTL) =>
                 /\ ~call'[c].hit
                 /\ CacheIndex(responseCache', call'[c].key) = 0
     /\ (call' = call /\ responseCache' # responseCache) =>
          \A i \in 1..Len(responseCache) :
             CacheIndex(responseCache', responseCache[i].key) = 0 =>
               now - responseCache[i].timestamp > CACHE_TTL]_vars

\* a request made when the entry stored for its key has reached CACHE_TTL: the entry
\* is gone and the request went on to a backend
C15_Witness ==
  \E c, d \in Ids :
     /\ d \in call[c].after
     /\ call[d].stored /\ Truthy(call[d].result)
     /\ call[d].key = call[c].key
     /\ call[c].at - call[d].ended >= CACHE_TTL
     /\ call[c].pc = "primary" /\ ~call[c].hit
     /\ CacheIndex(responseCache, call[c].key) = 0

(***************************************************************************)
(* Properties of splitIntoChunks (SpecChunker)                             *)
(***************************************************************************)
\* the length of a sanitized text: its sentences joined with single spaces
RECURSIVE TextLen(_)
TextLen(sentences) ==
  IF sentences = <<>> THEN 0
  ELSE SentenceLen(Head(sentences))
         + (IF Len(sentences) > 1 THEN 1 ELSE 0) + TextLen(Tail(sentences))

\* the length of chunks.join(" ")
RECURSIVE JoinedLen(_)
JoinedLen(chunks) ==
  IF chunks = <<>> THEN 0
  ELSE Head(chunks).len + (IF Len(chunks) > 1 THEN 1 ELSE 0) + JoinedLen(Tail(chunks))

\* the pieces of all chunks in order
RECURSIVE PiecesOf(_)
PiecesOf(chunks) ==
  IF chunks = <<>> THEN <<>> ELSE Head(chunks).items \o PiecesOf(Tail(chunks))

\* the text that the chunks spell is the sanitized text: every sentence occurs once,
\* in order, whole or as all of its parts in order, and the lengths agree
RoundTrip(text, chunks) ==
  LET body == sanitizeForTTS(text).body
      ps == PiecesOf(chunks)
      Of(si) == SelectSeq(ps, LAMBDA x : x.s = si)
  IN /\ JoinedLen(chunks) = TextLen(body)
     /\ \A i, j \in 1..Len(ps) : i < j => ps[i].s <= ps[j].s
     /\ \A si \in 1..Len(body) :
          \/ Of(si) = <<Piece(si, 0, SentenceLen(body[si]))>>
          \/ Of(si) = [k \in 1..Len(body[si]) |-> Piece(si, k, body[si][k].len)]

\* C12: for every input text, joining the chunks returned by splitIntoChunks with
\* single spaces reproduces the sanitized text exactly: nothing is dropped, added
\* or repeated.
C12_ChunkerRoundTrip ==
  \A s \in Ids : stream[s].pc # "idle" => RoundTrip(stream[s].text, stream[s].chunks)

Cancelled(t) == aborted[t]

\* the messages turn t handed to the client after a cancellation reached it
SentAfterCut(t) == {turn[t].log[i] : i \in (turn[t].cutLog + 1)..Len(turn[t].log)}

\* C1: in every reachable state at most one turn that has not been cancelled is
\* active (between its debounce timer firing and its pipeline finishing).
C1_OneActiveTurn ==
  Cardinality({t \in Ids : InFlight(t) /\ ~Cancelled(t)}) <= 1

\* C2: once a barge-in or any other cancellation has been detected for a turn, the
\* turn never afterwards updates memory and never sends a reply message or a
\* "Speaking..." status, even if its action or backend call completes afterwards.
C2_CancelledTurnSilent ==
  \A t \in Ids :
    turn[t].cut =>
      /\ turn[t].memUpdates = turn[t].cutMem
      /\ SentAfterCut(t) \cap {"reply", "Speaking"} = {}

\* C3: if a non-final transcript longer than the barge-in threshold arrives while a
\* turn is in Thinking, before its handleAction/routeRequest call has resolved, then
\* stop_audio is sent and the turn's token has fired before the result of the call
\* is used.
C3_BargeInWhileThinking ==
  \A t \in Ids :
    turn[t].bargedThinking =>
      /\ "stop_audio" \in {turn[t].log[i] : i \in 1..Len(turn[t].log)}
      /\ turn[t].memUpdates > 0 => turn[t].firedAtUse

\* C4: every turn that completes without being cancelled updates memory exactly
\* once, appending exactly one user utterance and exactly one reply, before the
\* first generation call of its synthesis stream.
C4_MemoryOncePerTurn ==
  \A t \in Ids :
    turn[t].pc = "done" /\ ~turn[t].cut /\ ~Cancelled(t) =>
      /\ turn[t].memUpdates = 1
      /\ turn[t].pushedUser = 1
      /\ turn[t].pushedBot = 1
      /\ turn[t].memBeforeGen

\* C9: routeRequest throws only when the token has fired; when the primary and the
\* fallback backend both fail with other errors it returns the fixed apology, and a
\* turn that was not cancelled sends it as a reply and streams it through synthesis,
\* with no error notification to the client.
C9_ApologySpokenNormally ==
  \A t \in Ids :
    /\ call[t].pc = "threw" => aborted[call[t].token]
    /\ call[t].outcomes = <<Failed, Failed>> =>
         /\ call[t].pc = "returned"
         /\ call[t].result = Apology
    /\ turn[t].pc = "done" /\ call[t].apology /\ ~turn[t].cut /\ ~Cancelled(t) =>
         /\ turn[t].reply = Apology
         /\ "reply" \in {turn[t].log[i] : i \in 1..Len(turn[t].log)}
         /\ "error" \notin {turn[t].log[i] : i \in 1..Len(turn[t].log)}
         /\ stream[t].started # <<>>

\* C17: when a turn is cancelled (by a barge-in or by client_stop_tts), no error
\* notification is sent to the client on account of that turn, in whatever order its
\* backend and synthesis calls return or fail afterwards.
C17_NoErrorForCancelled ==
  \A t \in Ids :
    Cancelled(t) => "error" \notin {turn[t].log[i] : i \in 1..Len(turn[t].log)}

\* the messages turn t handed to the client, in order
ClientLog(t) == SelectSeq(turn[t].log, LAMBDA m : m # "memory_update")

IsPrefix(a, b) == Len(a) <= Len(b) /\ a = SubSeq(b, 1, Len(a))

\* C27: for every turn that is not interrupted the client receives, in this order,
\* "Thinking...", the reply, "Speaking...", the audio frames of the turn and
\* "Listening..."; no audio frame is sent before "Speaking...", and a new turn is
\* accepted only after "Listening..." was sent.
C27_TurnMessageOrder ==
  \A t \in Ids :
    (turn[t].pc # "none" /\ ~turn[t].cut /\ ~Cancelled(t)) =>
      /\ IsPrefix(ClientLog(t), <<"Thinking", "reply", "Speaking", "Listening">>)
      /\ stream[t].frames # <<>> => Len(ClientLog(t)) >= 3
      /\ Len(ClientLog(t)) = 4 => stream[t].pc \in {"endTimer", "done"}
      /\ \A d \in Ids : (d > t /\ turn[d].pc # "none") => Len(ClientLog(t)) = 4

\* C33: a Turn that is awaiting its backend call or its synthesis stream, and was not
\* cancelled, finds its own token in currentTTSController and the active-Turn flag
\* set; and the step in which a Turn ends leaves the flag and the reference as they
\* are while a later Turn is in flight.
C33_TurnOwnsToken ==
  /\ [](\A t \in Ids :
          (turn[t].pc \in {"route", "stream"} /\ ~turn[t].cut) =>
             (processingAudio /\ currentTTSController = t))
  /\ [][\A t, d \in Ids :
          (t < d /\ turn[t].pc # "done" /\ turn'[t].pc = "done" /\ InFlight(d)) =>
             /\ processingAudio' = processingAudio
             /\ currentTTSController' = currentTTSController]_vars

\* turn t is Speaking: it awaits its synthesis stream, which has chunks left
Speaking(t) == turn[t].pc = "stream" /\ stream[t].pc \in {"gen", "pause"}

\* C34: in every state in which a Turn is Speaking, a client_stop_tts leaves the
\* token of that Turn's stream fired, so that the stream sends no further audio
\* frame; this also after a stop_live received during the Turn.
C34_StopTtsSilences ==
  \A t \in Ids :
    (Speaking(t) /\ wsOpen) =>
       (stream[t].token # 0 /\ ClientStopTtsResult.ab[stream[t].token])

\* C35: a call of routeRequest answered from the cache is given an answer that was
\* generated under its own memory snippet: the earlier call that stored the entry
\* was made with the same memoryContext.
C35_CacheRespectsMemory ==
  \A c, d \in Ids :
    (d < c /\ call[c].hit /\ call[d].stored /\ call[d].key = call[c].key
       /\ call[d].result = call[c].result)
    => call[d].mem = call[c].mem

(***************************************************************************)
(* Properties of murfStreamSentences (SpecTts)                             *)
(***************************************************************************)
\* C5: within one stream the audio frames are sent in strictly increasing chunk
\* order, at no time are two generation calls of the stream in flight, and the
\* generation of a chunk starts only after every earlier chunk was sent, skipped
\* or failed.
C5_SequentialStream ==
  \A s \in Ids :
    LET st == stream[s]
    IN /\ Cardinality(st.inflight) <= 1
       /\ \A a, b \in 1..Len(st.frames) : a < b => st.frames[a] < st.frames[b]
       /\ \A a, b \in 1..Len(st.started) : a < b => st.started[a] < st.started[b]
       /\ \A a \in 1..Len(st.frames) :
            \E b \in 1..Len(st.started) : st.started[b] = st.frames[a]
       /\ st.pc = "gen" => st.inflight = {st.i} /\ st.started[Len(st.started)] = st.i

\* a stream that sent two frames
C5_Witness ==
  \E s \in Ids : stream[s].frames = <<1, 2>> /\ stream[s].pc \in {"endTimer", "done"}

\* C10: if the token of an invocation fires at any point during the invocation
\* (before it starts, during a generation, or during a pause between chunks), no
\* tts_end is ever sent for it.
C10_NoEndWhenCancelled ==
  \A s \in Ids :
    stream[s].firedInCall => stream[s].pc # "endTimer" /\ stream[s].ttsEnd = 0

\* an invocation whose token fired after it had sent a frame
C10_Witness ==
  \E s \in Ids :
    /\ stream[s].firedInCall
    /\ stream[s].pc = "done"
    /\ stream[s].interrupted
    /\ Len(stream[s].frames) >= 1

(***************************************************************************)
(* Properties of routeRequest (SpecRouter)                                 *)
(***************************************************************************)
\* C6: of two calls with identical text, memory context and document flag, the
\* second made within the TTL after the first returned a backend answer, the
\* second returns the same output and invokes no backend.
C6_CacheIdempotent ==
  \A c1, c2 \in Ids :
    /\ c1 \in call[c2].after
    /\ call[c1].stored
    /\ call[c1].u = call[c2].u
    /\ call[c1].mem = call[c2].mem
    /\ call[c1].hasDoc = call[c2].hasDoc
    /\ call[c2].at - call[c1].ended < CACHE_TTL
    => /\ call[c2].invoked = <<>>
       /\ call[c2].pc = "returned"
       /\ call[c2].result = call[c1].result

\* C7: on a cache miss, when the primary backend fails with an error that is not a
\* cancellation and the fallback succeeds, routeRequest returns the fallback's
\* answer without its "Gyaanchand:" prefix, with the primary and the fallback
\* invoked once each.
C7_FallbackOrdering ==
  \A c \in Ids : \A a \in RouterAnswers :
    call[c].outcomes = <<Failed, Ok(a)>> =>
      /\ call[c].pc = "returned"
      /\ ~call[c].hit
      /\ ~call[c].apology
      /\ call[c].result.body = a.body
      /\ call[c].result.markup = a.markup
      /\ ~call[c].result.prefix
      /\ Len(call[c].invoked) = 2
      /\ call[c].invoked[1] \in {"pro", "flash"}
      /\ call[c].invoked[2] = "groq"

\* a call whose primary backend failed and whose fallback answered
C7_Witness ==
  \E c \in Ids : call[c].outcomes = <<Failed, Ok(AnsPrefixed)>> /\ call[c].pc = "returned"

\* C8: when a backend call inside routeRequest fails with a cancellation, the call
\* rethrows it: no fallback is invoked after it, the cache is not written and no
\* reply is returned.
C8_AbortRethrown ==
  \A c \in Ids :
    call[c].outcomes # <<>> /\ call[c].outcomes[Len(call[c].outcomes)] = Aborted =>
      /\ call[c].pc = "threw"
      /\ Len(call[c].invoked) = Len(call[c].outcomes)
      /\ ~call[c].stored
      /\ ~call[c].apology
      /\ call[c].result = EmptyText

\* a call whose primary backend was cancelled
C8_Witness ==
  \E c \in Ids : call[c].outcomes = <<Aborted>> /\ call[c].pc = "threw"

\* C20: within one synthesis stream, once its token has fired no further
\* generateChunkTTS call is started and no further audio frame is sent, the chunk
\* whose generation was in flight when the token fired included.
C20_NothingAfterTokenFired ==
  [][\A s \in Ids :
       (stream'[s].pc # "idle" /\ aborted[stream'[s].token]) =>
         /\ stream'[s].started = stream[s].started
         /\ stream'[s].frames = stream[s].frames]_vars

\* a stream that sent its first chunk, had its token fire and ended without sending
\* the second chunk, whose generation it had started
C20_Witness ==
  \E s \in Ids :
     /\ stream[s].pc = "done"
     /\ aborted[stream[s].token]
     /\ stream[s].started = <<1, 2>>
     /\ stream[s].frames = <<1>>
     /\ stream[s].interrupted

\* an invocation whose token has not fired and whose client socket is still open
Undisturbed(s) == stream[s].pc # "idle" /\ ~IsAborted(stream[s].token) /\ wsOpen

\* tts_end is sent once, by the time the invocation is over, and only when the loop
\* has gone through every chunk
EndOnceAfterFrames(s) ==
  /\ stream[s].ttsEnd <= 1
  /\ stream[s].pc = "done" => stream[s].ttsEnd = 1
  /\ stream[s].ttsEnd > 0 => stream[s].pc = "done" /\ stream[s].i > Len(stream[s].chunks)

\* C21 as stated: for every invocation that was not cancelled and whose client socket
\* stayed open, tts_end is sent exactly once and only after every audio frame of the
\* invocation; no audio frame is sent after tts_end.
C21_EndOnceEveryStream ==
  \A s \in Ids : Undisturbed(s) => EndOnceAfterFrames(s)

\* C21 amended: the same for every such invocation that has at least one chunk; an
\* invocation with an empty text, or with no chunk after sanitizing, returns without
\* tts_end.
C21_EndOnceAfterLastChunk ==
  \A s \in Ids : (Undisturbed(s) /\ stream[s].chunks # <<>>) => EndOnceAfterFrames(s)

\* an invocation that sent both of its chunks and then tts_end
C21_Witness ==
  \E s \in Ids :
     /\ Undisturbed(s)
     /\ stream[s].pc = "done"
     /\ stream[s].frames = <<1, 2>>
     /\ stream[s].ttsEnd = 1

\* the chunks of an undisturbed invocation whose generation failed: started, neither
\* sent nor in flight
FailedChunks(s) ==
  {i \in 1..Len(stream[s].chunks) :
     /\ \E k \in 1..Len(stream[s].started) : stream[s].started[k] = i
     /\ \A k \in 1..Len(stream[s].frames) : stream[s].frames[k] # i
     /\ i \notin stream[s].inflight}

\* C22: if the generation of a chunk fails with an error other than a cancellation,
\* the stream still attempts the generation of every later chunk (while it is not
\* cancelled and the client socket is open), and the failure neither ends the turn
\* abnormally nor sends an error notification.
C22_ChunkFailureSkipped ==
  \A t \in Ids :
    (Undisturbed(t) /\ FailedChunks(t) # {}) =>
      /\ StreamReturned(stream[t]) =>
           stream[t].started = [j \in 1..Len(stream[t].chunks) |-> j]
      /\ "error" \notin {turn[t].log[i] : i \in 1..Len(turn[t].log)}
      /\ turn[t].pc = "done" => turn[t].log[Len(turn[t].log)] = "Listening"

\* a finished turn whose first chunk failed and whose second chunk was sent
C22_Witness ==
  \E t \in Ids :
     /\ Undisturbed(t)
     /\ turn[t].pc = "done"
     /\ FailedChunks(t) = {1}
     /\ stream[t].frames = <<2>>

\* C23: once an invocation has found the client socket not open, it starts no further
\* generation, sends no further audio frame and sends no tts_end: it is over, the
\* chunk it was about to send is the last it started and was not sent.
C23_StopsWhenSinkGone ==
  \A s \in Ids :
    stream[s].sinkGone =>
      /\ stream[s].pc = "done"
      /\ stream[s].ttsEnd = 0
      /\ stream[s].inflight = {}
      /\ stream[s].started # <<>>
      /\ stream[s].started[Len(stream[s].started)] = stream[s].i
      /\ \A k \in 1..Len(stream[s].frames) : stream[s].frames[k] # stream[s].i

\* an invocation that sent its first chunk and found the socket closed when the
\* generation of the second was done
C23_Witness ==
  \E s \in Ids :
     /\ stream[s].sinkGone
     /\ stream[s].frames = <<1>>
     /\ stream[s].started = <<1, 2>>
     /\ Len(stream[s].chunks) = 2

\* turn t carries an utterance that handleAction reports as handled
HandledByAction(t) == turn[t].pc # "none" /\ turn[t].u.act # "none"

\* C29: a Turn whose utterance handleAction reports as handled speaks handleAction's
\* message; routeRequest is never invoked for it (so no reasoning backend is called
\* and the cache is not read), and no step of that Turn changes the response cache.
C29_ActionBypassesRouter ==
  /\ [](\A t \in Ids : HandledByAction(t) =>
          /\ call[t] = NoCall
          /\ turn[t].pc # "action" =>
               /\ turn[t].path = "action"
               /\ turn[t].reply = ActionMessage(turn[t].u)
               /\ stream[t].text = ActionMessage(turn[t].u)
               /\ \E i \in 1..Len(turn[t].log) : turn[t].log[i] = "reply")
  /\ [][\A t \in Ids :
          (turn'[t].pc # "none" /\ turn'[t].u.act # "none"
             /\ (turn'[t] # turn[t] \/ stream'[t] # stream[t]))
          => responseCache' = responseCache]_vars

\* after a Turn answered by the router and stored in the cache, a handled Turn has
\* spoken handleAction's message
C29_Witness ==
  /\ turn[1].path = "ai" /\ call[1].stored
  /\ HandledByAction(2) /\ turn[2].pc = "done" /\ stream[2].frames # <<>>

(***************************************************************************)
(* updateMemory on its own: a session whose turns only record what was     *)
(* said and what was answered.  A final transcript is never empty (line    *)
(* 259); the reply may be (a backend answer that is empty once cleaned).   *)
(***************************************************************************)
MemoryReplies == {AnsShort, AnsLong, EmptyText}

\* turn nturns + 1 calls updateMemory(transcript, botMsg)
MemoryCall(u, botMsg) ==
  /\ nturns < MaxUpdates
  /\ nturns' = nturns + 1
  /\ memory' = updateMemory(memory, u, botMsg, nturns + 1)
  /\ UNCHANGED <<client, orphaned, dgWs, isOpen, processingAudio, transcriptTimeout,
                 currentTTSController, dgConnection, sessionData, wsOpen, turn, call, stream,
                 aborted, responseCache, now>>

MemoryNext == \E u \in Utterances, botMsg \in MemoryReplies : MemoryCall(u, botMsg)

SpecMemory == Init /\ [][MemoryNext]_vars

\* the entries of a window are in the order of the turns that pushed them
InArrivalOrder(list) == \A i \in 1..Len(list) - 1 : list[i].turn < list[i + 1].turn

\* list2 is list with one entry appended, the oldest entry dropped when list was full
AppendedEvictingOldest(list, list2) ==
  /\ list2 # <<>>
  /\ list2[Len(list2)].turn = nturns'
  /\ IF Len(list) < MEMORY_WINDOW
     THEN SubSeq(list2, 1, Len(list2) - 1) = list
     ELSE SubSeq(list2, 1, Len(list2) - 1) = Tail(list)

\* C30: the memory holds at most 4 user utterances and at most 4 replies, each
\* window in arrival order and ending with the most recent one; appending to a full
\* window evicts its oldest entry and nothing else.
C30_MemoryWindow ==
  /\ [](/\ Len(memory.lastUserMessages) <= 4
        /\ Len(memory.lastBotMessages) <= 4
        /\ InArrivalOrder(memory.lastUserMessages)
        /\ InArrivalOrder(memory.lastBotMessages)
        /\ nturns > 0 => memory.lastUserMessages[Len(memory.lastUserMessages)].turn = nturns)
  /\ [][/\ AppendedEvictingOldest(memory.lastUserMessages, memory'.lastUserMessages)
        /\ \/ memory'.lastBotMessages = memory.lastBotMessages
           \/ AppendedEvictingOldest(memory.lastBotMessages, memory'.lastBotMessages)]_vars

\* six turns with five replies: the first two utterances and the first reply are gone
C30_Witness ==
  /\ nturns = 6
  /\ [i \in 1..4 |-> memory.lastUserMessages[i].turn] = <<3, 4, 5, 6>>
  /\ Len(memory.lastBotMessages) = 4
  /\ memory.lastBotMessages[1].turn = 2
  /\ \E i \in 1..3 : memory.lastBotMessages[i + 1].turn > memory.lastBotMessages[i].turn + 1

(***************************************************************************)
(* Name detection: a recognizer that delivers a greeting and a sentence    *)
(* in which the speaker gives a name; turns end as in SpecDebounce.        *)
(***************************************************************************)
NameUtterances == {U_hello, U_name}

NameNext ==
  \/ DgOpen
  \/ \E u \in NameUtterances, isFinal \in BOOLEAN, speechFinal \in BOOLEAN, c \in Confidences :
       DgMessage(u, isFinal, speechFinal, c)
  \/ TimerFire
  \/ \E t \in Ids, o \in {Ok(AnsBare), Aborted} : BackendDone(t, o)

SpecName == Init /\ [][NameNext]_vars

\* C31: the memory (both windows and the user name) changes only in a step in which
\* a Turn records its exchange; a recognition event by itself leaves it unchanged.
C31_MemoryOnlyByTurn ==
  [][memory' # memory => \E t \in Ids : turn'[t].memUpdates > turn[t].memUpdates]_vars

(***************************************************************************)
(* The choice of backends: routeRequest called with a greeting, a short    *)
(* question, a question of medium complexity, a question about a document  *)
(* and a request that names a file, with and without a document.           *)
(***************************************************************************)
TierRequests ==
  {<<U_hello, FALSE>>, <<U_time, FALSE>>, <<U_time, TRUE>>, <<U_why, FALSE>>,
   <<U_pdf, FALSE>>, <<U_pdf, TRUE>>, <<U_file, TRUE>>}

TierNext ==
  \/ \E c \in Ids, r \in TierRequests : RouteCall(c, r[1], r[2])
  \/ \E c \in Ids, o \in {Ok(AnsPrefixed), Aborted, Failed} : RouterBackendDone(c, o)
  \/ \E k \in Ids : AbortToken(k)

SpecTier == Init /\ [][TierNext]_vars

\* the document branch of routeRequest is taken
DocumentMode(c) ==
  call[c].hasDoc /\ (classifyIntent(call[c].u).type = "document" \/ call[c].u.kwFile)

\* C32: on a cache miss the first backend invoked is the fast tier exactly when the
\* query is not in document mode and its intent is greeting or its complexity is
\* simple, and the deep tier otherwise; after a failure of the primary that is not a
\* cancellation the one backend invoked is Groq; no backend is invoked twice.
C32_TierSelection ==
  \A c \in Ids :
    call[c].pc # "idle" =>
      LET intent == classifyIntent(call[c].u)
          fast == ~DocumentMode(c) /\ (intent.type = "greeting" \/ intent.complexity = "simple")
          invoked == call[c].invoked
          outcomes == call[c].outcomes
      IN /\ call[c].hit <=> invoked = <<>>
         /\ ~call[c].hit => invoked[1] = (IF fast THEN "flash" ELSE "pro")
         /\ Len(invoked) <= 2
         /\ Len(invoked) = 2 <=> (outcomes # <<>> /\ outcomes[1].kind = "error")
         /\ Len(invoked) = 2 => invoked[2] = "groq"
         /\ \A i, j \in 1..Len(invoked) : invoked[i] = invoked[j] => i = j

\* a question of medium complexity went to the deep tier and then to Groq, and a
\* request naming a file, made with a document, went to the deep tier
C32_Witness ==
  /\ call[1].u = U_why /\ call[1].invoked = <<"pro", "groq">> /\ call[1].pc = "returned"
  /\ call[2].u = U_file /\ call[2].invoked = <<"pro">>

(***************************************************************************)
(* The session store: connections come and go, each with its session id,   *)
(* and documents are uploaded with the id the request carries.             *)
(***************************************************************************)
OtherSessions == {"s2", "s3"}
Documents == {"report", "letter"}

\* wss.on("connection") of another client: its session is created without a document
Connect(sid) ==
  /\ \A i \in 1..Len(sessionData) : sessionData[i].sid # sid
  /\ sessionData' = Append(sessionData, [sid |-> sid, document |-> ""])
  /\ UNCHANGED <<client, orphaned, dgWs, isOpen, processingAudio, transcriptTimeout, currentTTSController,
                 memory, dgConnection, wsOpen, turn, nturns, call, stream, aborted,
                 responseCache, now>>

\* the timer set by ws.on("close") deletes the session of a connection that has closed
SessionCleanup(sid) ==
  /\ sid = OwnSession => ~wsOpen
  /\ \E i \in 1..Len(sessionData) : sessionData[i].sid = sid
  /\ sessionData' = SelectSeq(sessionData, LAMBDA e : e.sid # sid)
  /\ UNCHANGED <<client, orphaned, dgWs, isOpen, processingAudio, transcriptTimeout, currentTTSController,
                 memory, dgConnection, wsOpen, turn, nturns, call, stream, aborted,
                 responseCache, now>>

UploadNext ==
  \/ \E sid \in OtherSessions : Connect(sid)
  \/ \E sid \in OtherSessions \cup {OwnSession}, doc \in Documents : Upload(sid, doc)
  \/ \E sid \in OtherSessions \cup {OwnSession} : SessionCleanup(sid)
  \/ WsClose

SpecUpload == Init /\ [][UploadNext]_vars

\* the entry of session sid, if there is one
SessionEntry(data, sid) == {data[i] : i \in {j \in 1..Len(data) : data[j].sid = sid}}

\* C36: an upload carrying session id S leaves every session with another id as it
\* was: it neither creates such a session nor changes its document.
C36_UploadOnlyOwnSession ==
  [][\A S \in OtherSessions \cup {OwnSession}, doc \in Documents :
       Upload(S, doc) =>
         \A sid \in (OtherSessions \cup {OwnSession}) \ {S} :
           SessionEntry(sessionData', sid) = SessionEntry(sessionData, sid)]_vars

\* C37: on the client at most one processAudioQueue loop is running and at most one
\* chunk is being played at any time, and the chunks are played in the order of
\* their arrival.
C37_OnePlaybackLoop ==
  /\ Cardinality(client.playing) <= 1
  /\ \A i \in 1..Len(client.played) - 1 : client.played[i] < client.played[i + 1]

(***************************************************************************)
(* The session with its calls settling: handleAction, the backend calls,   *)
(* the chunk generations, the pauses and the tts_end timer each return or  *)
(* fail once they are pending; the recognizer and the client are free, and *)
(* the client socket stays open.                                           *)
(***************************************************************************)
FairOutcomes == {Ok(AnsLong), Aborted, Failed}

FairNext ==
  \/ DgOpen
  \/ \E u \in Utterances, isFinal \in BOOLEAN : DgMessage(u, isFinal, TRUE, 95)
  \/ TimerFire
  \/ \E t \in Ids : ActionDone(t)
  \/ \E t \in Ids, o \in FairOutcomes : BackendDone(t, o)
  \/ \E t \in Ids, o \in {Ok(EmptyText), Aborted, Failed} : GenDone(t, o)
  \/ \E t \in Ids : PauseDone(t)
  \/ \E t \in Ids : EndTimer(t)
  \/ ClientStopTts

CallsSettle ==
  \A t \in Ids :
    /\ WF_vars(ActionDone(t))
    /\ WF_vars(\E o \in FairOutcomes : BackendDone(t, o))
    /\ WF_vars(\E o \in {Ok(EmptyText), Aborted, Failed} : GenDone(t, o))
    /\ WF_vars(PauseDone(t))
    /\ WF_vars(EndTimer(t))

SpecFair == Init /\ [][FairNext]_vars /\ CallsSettle

\* turn t has ended: Listening... was its last message
TurnEnded(t) ==
  /\ turn[t].pc = "done"
  /\ turn[t].log # <<>>
  /\ turn[t].log[Len(turn[t].log)] = "Listening"

\* C38: every Turn that has started ends, whether it completes, is cancelled or
\* fails: Listening... is sent and the active-Turn flag is cleared.
C38_TurnEventuallyEnds ==
  \A t \in Ids : InFlight(t) ~> (TurnEnded(t) /\ ~processingAudio)

\* a cancelled Turn has ended
C38_Witness ==
  \E t \in Ids : turn[t].cut /\ TurnEnded(t) /\ ~processingAudio /\ call[t].pc = "threw"

\* C39: the fixed reply returned when all backends fail is never stored in the cache:
\* no entry holds it, the call that returned it stored nothing, and a later call
\* with the same key (no other call having stored an answer for it) is not answered
\* from the cache but invokes the backends again.
C39_ApologyNotCached ==
  /\ \A i \in 1..Len(responseCache) : responseCache[i].response # Apology
  /\ \A c \in Ids : call[c].apology => ~call[c].stored
  /\ \A c, d \in Ids :
       (call[d].apology /\ d \in call[c].after /\ call[c].pc # "idle"
          /\ call[c].key = call[d].key
          /\ ~\E e \in call[c].after : call[e].stored /\ call[e].key = call[c].key)
       => (~call[c].hit /\ call[c].invoked # <<>>)

\* both backends failed for a query, and the same query asked again went to the
\* backends again
C39_Witness ==
  /\ call[1].apology /\ call[1].invoked = <<"flash", "groq">>
  /\ call[2].key = call[1].key /\ 1 \in call[2].after
  /\ call[2].invoked # <<>> /\ call[2].pc = "returned" /\ call[2].stored

\* memory.history of the memory_update message: lastUserMessages.slice(-3) mapped,
\* by the index in the slice, to lastBotMessages[i] || "" (a missing reply is kept as
\* an entry without a turn)
MemoryHistory(mem) ==
  LET users == mem.lastUserMessages
      slice == SubSeq(users, IF Len(users) > 3 THEN Len(users) - 2 ELSE 1, Len(users))
  IN [i \in 1..Len(slice) |->
        [user |-> slice[i],
         assistant |-> IF i <= Len(mem.lastBotMessages) THEN mem.lastBotMessages[i]
                       ELSE [msg |-> EmptyText, turn |-> 0]]]

\* C40: in the memory_update sent after any number of Turns, each history entry pairs
\* a user utterance with the reply given in the same Turn.
C40_HistoryPairsSameTurn ==
  \A i \in 1..Len(MemoryHistory(memory)) :
    LET h == MemoryHistory(memory)[i]
    IN h.assistant.turn # 0 => h.assistant.turn = h.user.turn

====
